---- MODULE Spec2Model ----
(***************************************************************************)
(* Model of the Unstable Flappy simulation core: the game loop of          *)
(* components/Game.tsx with the pure rules of game/PhaseManager.ts,        *)
(* game/Bird.ts, game/Pipe.ts, game/Collision.ts and game/ModeConfig.ts.   *)
(*                                                                         *)
(* Units.  Times (timestamps, timeAlive, durations) are in milliseconds.   *)
(* Lengths, velocities and forces are in micro-pixels (1 px = 1000000).    *)
(* Multipliers of the mode profile are in percent.  A Math.random() draw   *)
(* is an integer r in 0..RandomScale-1 standing for r / RandomScale.       *)
(***************************************************************************)
EXTENDS Integers, Sequences, FiniteSets, TLC

VARIABLES
    state,          \* stateRef.current : GameState
    lastTime,       \* lastTimeRef.current
    lastPipeSpawn,  \* lastPipeSpawnRef.current
    now,            \* the clock behind performance.now() and the frame timestamp
    lastOp,         \* name of the handler that ran last
    frames,         \* number of animation frames so far
    longFrames,     \* number of long frames so far
    inputs,         \* number of keyboard, mouse and touch events that took effect
    restarts,       \* number of handleRestart calls so far
    probe           \* last application of a pure rule (PhaseRules specification)

vars == <<state, lastTime, lastPipeSpawn, now, lastOp, frames, longFrames, inputs, restarts, probe>>

(***************************************************************************)
(* Bounds of the model                                                     *)
(***************************************************************************)
\* Frames of a run.  Every frame is a short one, except that one of the
\* first InputWindow frames may be a long one (the tab was in the background).
MaxFrames == 52
MaxLongFrames == 1
\* Frames shown before the player starts the game
MaxIdleFrames == 1
\* Keyboard, mouse and touch events that change the game; they arrive during the first
\* InputWindow frames or on the game-over screen.
\* The random draws vary during the same frames and take their most likely
\* value afterwards.
MaxInputs == 2
InputWindow == 2
MaxRestarts == 1
\* Largest phase handed to the pure rules of PhaseManager.ts
\* Ticks of a run of the pipe rules, and the ticks between two spawns there
MaxPipeTicks == 240
PipeSpawnTicks == 120
MaxProbePhase == 12

ShortFrame == 2 * 175
LongFrame == 15 * 1000
JumpKeys == {2, 3, 5}
RandomScale == 10 * 1000
RandomDraws == {0, RandomScale - 1}
LikelyDraw == RandomScale - 1
GapDraws == {RandomScale \div 2}
SeedDraws == {0}
Micro == 1000 * 1000

(***************************************************************************)
(* game/Config.ts                                                          *)
(***************************************************************************)
CANVAS_WIDTH == 400
CANVAS_HEIGHT == 600
BIRD_WIDTH == 34
BIRD_HEIGHT == 24
BIRD_X_POSITION == 80
BIRD_INITIAL_Y == 250
GRAVITY == 375000
FLAP_FORCE == -7500000
HEAVY_GRAVITY == 450000
FLOATY_GRAVITY == 260000
MAX_VELOCITY == 8000000
MIN_VELOCITY == -10000000
PIPE_WIDTH == 52
GAP_SIZE == 200
MIN_GAP_SIZE == 140
GAP_SHRINK_PER_PHASE == 5
SPAWN_INTERVAL == 2000
PIPE_SPEED == 2000000
MIN_GAP_Y == 100
PHASE_DURATION == 15000
WIND_UPWARD == -75000
WIND_DOWNWARD == 75000
GUST_INTERVAL == 2500
CONTROL_FLIP_DURATION == 5000
CONTROL_FLIP_WARNING == 2000
GHOST_PIPE_BASE_PROBABILITY == 1000
GHOST_PIPE_PHASE_MULTIPLIER == 1000
DELAYED_COLLISION_MS == 300
SPEED_DRIFT_MAX == 15
PHASE_CHANGE_DURATION == 1500
TIME_SCALE == 50
GRAVITY_DRIFT_CYCLE_TIME == 4000
GRAVITY_LOW_MULTIPLIER == 65
GRAVITY_HIGH_MULTIPLIER == 145
OSCILLATION_AMPLITUDE == 55
OSCILLATION_SPEED == 20
BANNER_DURATION == 2000
FREEZE_DURATION == 700
TRIGGER_PHASES == {3, 6, 9}
MAX_PHASE == 10

(***************************************************************************)
(* game/ModeConfig.ts                                                      *)
(***************************************************************************)
GameModes == {"CHAOS", "DEMO"}

CHAOS_MODE_CONFIG ==
    [ pipeGapMultiplier |-> 100, pipeSpawnMultiplier |-> 100,
      pipeSpeedMultiplier |-> 100, gravityMultiplier |-> 100,
      windForceMultiplier |-> 100, oscillationAmplitudeMultiplier |-> 100,
      controlFlipDurationMultiplier |-> 100, controlFlipForceMultiplier |-> 100,
      ghostPipeOpacity |-> 40, collisionForgivenessMs |-> 0 ]

DEMO_MODE_CONFIG ==
    [ pipeGapMultiplier |-> 160, pipeSpawnMultiplier |-> 125,
      pipeSpeedMultiplier |-> 70, gravityMultiplier |-> 80,
      windForceMultiplier |-> 60, oscillationAmplitudeMultiplier |-> 75,
      controlFlipDurationMultiplier |-> 30, controlFlipForceMultiplier |-> 50,
      ghostPipeOpacity |-> 30, collisionForgivenessMs |-> 120 ]

getModeConfig(mode) == IF mode = "CHAOS" THEN CHAOS_MODE_CONFIG ELSE DEMO_MODE_CONFIG

(***************************************************************************)
(* Arithmetic helpers                                                      *)
(***************************************************************************)
Max(a, b) == IF a >= b THEN a ELSE b
Min(a, b) == IF a <= b THEN a ELSE b

\* Math.floor(a / b) for b > 0 (TLA+ \div already rounds towards minus infinity)
Floor(a, b) == a \div b

\* JavaScript a % b for b > 0: the result takes the sign of the dividend
JsMod(a, b) == IF a >= 0 THEN a % b ELSE 0 - ((0 - a) % b)

\* |a| * pct / 100 rounded down, computed without overflowing 32 bits
ScaleAbs(a, pct) == (a \div 100) * pct + ((a % 100) * pct) \div 100

\* a * pct / 100 truncated towards zero (fixed-point image of a float product)
Scale(a, pct) == IF a >= 0 THEN ScaleAbs(a, pct) ELSE 0 - ScaleAbs(0 - a, pct)

\* Math.sin on an angle in milliradians, result in thousandths
\* (Bhaskara's rational approximation, exact at multiples of pi/2)
PiMrad == 3142
SinHalf(x) == (16 * x * (PiMrad - x)) \div ((5 * PiMrad * PiMrad - 4 * x * (PiMrad - x)) \div 1000)
Sin1000(mrad) ==
    LET a == mrad % (2 * PiMrad)
    IN  IF a <= PiMrad THEN SinHalf(a) ELSE 0 - SinHalf(a - PiMrad)

(***************************************************************************)
(* game/PhaseManager.ts                                                    *)
(***************************************************************************)
\* faulty variant: Math.round in place of Math.floor
getCurrentPhaseRounded(timeAlive) ==
    Floor(timeAlive + PHASE_DURATION \div 2, PHASE_DURATION) + 1

getCurrentPhase(timeAlive) == Floor(timeAlive, PHASE_DURATION) + 1

\* faulty variant: the wind is switched on in phase 4 only (=== for >=)
getPhaseConfigWindOnce(phase) ==
    LET isAllUnstable == phase >= 9
    IN  [ gravityDrift    |-> phase >= 2 \/ isAllUnstable,
          pipeOscillation |-> phase >= 3 \/ isAllUnstable,
          windForce       |-> phase = 4 \/ isAllUnstable,
          controlFlip     |-> phase >= 5 \/ isAllUnstable,
          ghostPipes      |-> phase >= 6 \/ isAllUnstable,
          speedDrift      |-> phase >= 7 \/ isAllUnstable,
          visualGlitch    |-> phase >= 8 \/ isAllUnstable,
          allUnstable     |-> isAllUnstable ]

\* faulty variant: gravity drift starts one phase late
getPhaseConfigLateDrift(phase) ==
    LET isAllUnstable == phase >= 9
    IN  [ gravityDrift    |-> phase >= 3 \/ isAllUnstable,
          pipeOscillation |-> phase >= 3 \/ isAllUnstable,
          windForce       |-> phase >= 4 \/ isAllUnstable,
          controlFlip     |-> phase >= 5 \/ isAllUnstable,
          ghostPipes      |-> phase >= 6 \/ isAllUnstable,
          speedDrift      |-> phase >= 7 \/ isAllUnstable,
          visualGlitch    |-> phase >= 8 \/ isAllUnstable,
          allUnstable     |-> isAllUnstable ]

getPhaseConfig(phase) ==
    LET isAllUnstable == phase >= 9
    IN  [ gravityDrift    |-> phase >= 2 \/ isAllUnstable,
          pipeOscillation |-> phase >= 3 \/ isAllUnstable,
          windForce       |-> phase >= 4 \/ isAllUnstable,
          controlFlip     |-> phase >= 5 \/ isAllUnstable,
          ghostPipes      |-> phase >= 6 \/ isAllUnstable,
          speedDrift      |-> phase >= 7 \/ isAllUnstable,
          visualGlitch    |-> phase >= 8 \/ isAllUnstable,
          allUnstable     |-> isAllUnstable ]

\* faulty variant: the round robin runs base, floaty, heavy
calculateGravityReversed(phase, timeAlive, config, modeConfig) ==
    LET baseGravity == Scale(GRAVITY, modeConfig.gravityMultiplier)
    IN  IF ~config.gravityDrift
        THEN [gravity |-> baseGravity, changed |-> FALSE]
        ELSE IF phase = 2 \/ phase = 3
        THEN LET cyclePhase == JsMod(Floor(timeAlive, GRAVITY_DRIFT_CYCLE_TIME), 2)
                 prevCyclePhase == JsMod(Floor(timeAlive - 16, GRAVITY_DRIFT_CYCLE_TIME), 2)
                 multiplier == IF cyclePhase = 0 THEN GRAVITY_LOW_MULTIPLIER
                                                 ELSE GRAVITY_HIGH_MULTIPLIER
             IN  [gravity |-> Scale(baseGravity, multiplier),
                  changed |-> cyclePhase # prevCyclePhase]
        ELSE IF phase = 4
        THEN [gravity |-> Scale(FLOATY_GRAVITY, modeConfig.gravityMultiplier),
              changed |-> FALSE]
        ELSE LET cycle == JsMod(Floor(timeAlive, 5000), 3)
                 prevCycle == JsMod(Floor(timeAlive - 16, 5000), 3)
                 gravity == CASE cycle = 0 -> GRAVITY
                              [] cycle = 1 -> FLOATY_GRAVITY
                              [] cycle = 2 -> HEAVY_GRAVITY
                              [] OTHER -> GRAVITY
             IN  [gravity |-> Scale(gravity, modeConfig.gravityMultiplier),
                  changed |-> cycle # prevCycle]

calculateGravity(phase, timeAlive, config, modeConfig) ==
    LET baseGravity == Scale(GRAVITY, modeConfig.gravityMultiplier)
    IN  IF ~config.gravityDrift
        THEN [gravity |-> baseGravity, changed |-> FALSE]
        ELSE IF phase = 2 \/ phase = 3
        THEN LET cyclePhase == JsMod(Floor(timeAlive, GRAVITY_DRIFT_CYCLE_TIME), 2)
                 prevCyclePhase == JsMod(Floor(timeAlive - 16, GRAVITY_DRIFT_CYCLE_TIME), 2)
                 multiplier == IF cyclePhase = 0 THEN GRAVITY_LOW_MULTIPLIER
                                                 ELSE GRAVITY_HIGH_MULTIPLIER
             IN  [gravity |-> Scale(baseGravity, multiplier),
                  changed |-> cyclePhase # prevCyclePhase]
        ELSE IF phase = 4
        THEN [gravity |-> Scale(FLOATY_GRAVITY, modeConfig.gravityMultiplier),
              changed |-> FALSE]
        ELSE LET cycle == JsMod(Floor(timeAlive, 5000), 3)
                 prevCycle == JsMod(Floor(timeAlive - 16, 5000), 3)
                 gravity == CASE cycle = 0 -> GRAVITY
                              [] cycle = 1 -> HEAVY_GRAVITY
                              [] cycle = 2 -> FLOATY_GRAVITY
                              [] OTHER -> GRAVITY
             IN  [gravity |-> Scale(gravity, modeConfig.gravityMultiplier),
                  changed |-> cycle # prevCycle]

\* faulty variant: the gust to the right comes without the lull before it
calculateWindForceNoLull(phase, timeAlive, config, modeConfig) ==
    IF ~config.windForce THEN 0
    ELSE LET gustCycle == JsMod(Floor(timeAlive, GUST_INTERVAL), 4)
             intensityMultiplier == IF phase = 4 THEN 50 ELSE 100
             modeMultiplier == modeConfig.windForceMultiplier
         IN  CASE gustCycle = 0 -> Scale(Scale(WIND_UPWARD, intensityMultiplier), modeMultiplier)
               [] gustCycle = 1 -> Scale(Scale(WIND_DOWNWARD, intensityMultiplier), modeMultiplier)
               [] OTHER -> 0

calculateWindForce(phase, timeAlive, config, modeConfig) ==
    IF ~config.windForce THEN 0
    ELSE LET gustCycle == JsMod(Floor(timeAlive, GUST_INTERVAL), 4)
             intensityMultiplier == IF phase = 4 THEN 50 ELSE 100
             modeMultiplier == modeConfig.windForceMultiplier
         IN  CASE gustCycle = 0 -> Scale(Scale(WIND_UPWARD, intensityMultiplier), modeMultiplier)
               [] gustCycle = 2 -> Scale(Scale(WIND_DOWNWARD, intensityMultiplier), modeMultiplier)
               [] OTHER -> 0

\* faulty variant: the ramp rises twice as fast (cycle / 2 for cycle / 4)
calculatePipeSpeedSteepRamp(phase, timeAlive, config, modeConfig) ==
    LET baseSpeed == Scale(PIPE_SPEED, modeConfig.pipeSpeedMultiplier)
        cycle == JsMod(timeAlive, 10000)
        maxDrift == Scale(baseSpeed, SPEED_DRIFT_MAX)
    IN  IF ~config.speedDrift THEN baseSpeed
        ELSE IF cycle < 4000 THEN baseSpeed + (cycle * (maxDrift \div 100)) \div 20
        ELSE IF cycle < 5000 THEN baseSpeed - maxDrift
        ELSE baseSpeed - maxDrift + ((cycle - 5000) * ((maxDrift * 2) \div 100)) \div 50

calculatePipeSpeed(phase, timeAlive, config, modeConfig) ==
    LET baseSpeed == Scale(PIPE_SPEED, modeConfig.pipeSpeedMultiplier)
        cycle == JsMod(timeAlive, 10000)
        maxDrift == Scale(baseSpeed, SPEED_DRIFT_MAX)
    IN  IF ~config.speedDrift THEN baseSpeed
        ELSE IF cycle < 4000 THEN baseSpeed + (cycle * (maxDrift \div 100)) \div 40
        ELSE IF cycle < 5000 THEN baseSpeed - maxDrift
        ELSE baseSpeed - maxDrift + ((cycle - 5000) * ((maxDrift * 2) \div 100)) \div 50

\* draw is the Math.random() of the random trigger
shouldTriggerControlFlip(s, config, draw) ==
    IF ~config.controlFlip THEN FALSE
    ELSE IF s.isControlFlipped THEN FALSE
    ELSE IF s.controlFlipWarning THEN FALSE
    ELSE LET phaseTime == JsMod(s.timeAlive, PHASE_DURATION)
         IN  IF s.phase = 5 /\ phaseTime < 1000 THEN TRUE
             ELSE IF s.phase >= 5 /\ draw * 10000 < 5 * RandomScale THEN TRUE
             ELSE FALSE

\* faulty variant: the mode's duration multiplier is dropped
getControlFlipDurationUnscaled(modeConfig) == CONTROL_FLIP_DURATION

getControlFlipDuration(modeConfig) ==
    Scale(CONTROL_FLIP_DURATION, modeConfig.controlFlipDurationMultiplier)

shouldShowPhaseBanner(newPhase, previousPhase) == newPhase <= MAX_PHASE

(***************************************************************************)
(* game/Bird.ts                                                            *)
(***************************************************************************)
createBird ==
    [ x |-> BIRD_X_POSITION * Micro, y |-> BIRD_INITIAL_Y * Micro,
      velocityY |-> 0, velocityX |-> 0,
      width |-> BIRD_WIDTH * Micro, height |-> BIRD_HEIGHT * Micro ]

\* faulty variant: the hold and release branches of the control flip are swapped
VerticalPushSwapped(gravity, isControlFlipped, isHoldingInput, flipForceMultiplier) ==
    IF isControlFlipped
    THEN (IF ~isHoldingInput
          THEN Scale(Scale(gravity, 250), flipForceMultiplier)
          ELSE 0 - Scale(Scale(gravity, 120), flipForceMultiplier))
         + (IF flipForceMultiplier < 100
            THEN Scale(Scale(gravity, 100 - flipForceMultiplier), 50)
            ELSE 0)
    ELSE gravity

\* the amount added to velocityY before clamping
VerticalPush(gravity, isControlFlipped, isHoldingInput, flipForceMultiplier) ==
    IF isControlFlipped
    THEN (IF isHoldingInput
          THEN Scale(Scale(gravity, 250), flipForceMultiplier)
          ELSE 0 - Scale(Scale(gravity, 120), flipForceMultiplier))
         + (IF flipForceMultiplier < 100
            THEN Scale(Scale(gravity, 100 - flipForceMultiplier), 50)
            ELSE 0)
    ELSE gravity

\* faulty variant: the wind is added to the vertical velocity as well
updateBirdLiftingWind(bird, gravity, horizontalWind, isControlFlipped, isHoldingInput, flipForceMultiplier) ==
    LET pushed == bird.velocityY + horizontalWind
                    + VerticalPush(gravity, isControlFlipped, isHoldingInput, flipForceMultiplier)
        clampedVY == Max(MIN_VELOCITY, Min(MAX_VELOCITY, pushed))
        movedY == bird.y + clampedVY
        newY == IF movedY < 0 THEN 0 ELSE movedY
        newVelocityY == IF movedY < 0 THEN 0 ELSE clampedVY
        newVelocityX == Max(-3 * Micro, Min(3 * Micro, Scale(bird.velocityX + horizontalWind, 95)))
        newX == Max(20 * Micro,
                    Min(CANVAS_WIDTH * Micro - bird.width - 20 * Micro, bird.x + newVelocityX))
    IN  [bird EXCEPT !.x = newX, !.y = newY,
                     !.velocityY = newVelocityY, !.velocityX = newVelocityX]

\* faulty variant: the bird bounces off the ceiling
updateBirdBouncing(bird, gravity, horizontalWind, isControlFlipped, isHoldingInput, flipForceMultiplier) ==
    LET pushed == bird.velocityY
                    + VerticalPush(gravity, isControlFlipped, isHoldingInput, flipForceMultiplier)
        clampedVY == Max(MIN_VELOCITY, Min(MAX_VELOCITY, pushed))
        movedY == bird.y + clampedVY
        newY == IF movedY < 0 THEN 0 ELSE movedY
        newVelocityY == IF movedY < 0 THEN 0 - clampedVY ELSE clampedVY
        newVelocityX == Max(-3 * Micro, Min(3 * Micro, Scale(bird.velocityX + horizontalWind, 95)))
        newX == Max(20 * Micro,
                    Min(CANVAS_WIDTH * Micro - bird.width - 20 * Micro, bird.x + newVelocityX))
    IN  [bird EXCEPT !.x = newX, !.y = newY,
                     !.velocityY = newVelocityY, !.velocityX = newVelocityX]

updateBird(bird, gravity, horizontalWind, isControlFlipped, isHoldingInput, flipForceMultiplier) ==
    LET pushed == bird.velocityY
                    + VerticalPush(gravity, isControlFlipped, isHoldingInput, flipForceMultiplier)
        clampedVY == Max(MIN_VELOCITY, Min(MAX_VELOCITY, pushed))
        movedY == bird.y + clampedVY
        newY == IF movedY < 0 THEN 0 ELSE movedY
        newVelocityY == IF movedY < 0 THEN 0 ELSE clampedVY
        newVelocityX == Max(-3 * Micro, Min(3 * Micro, Scale(bird.velocityX + horizontalWind, 95)))
        newX == Max(20 * Micro,
                    Min(CANVAS_WIDTH * Micro - bird.width - 20 * Micro, bird.x + newVelocityX))
    IN  [bird EXCEPT !.x = newX, !.y = newY,
                     !.velocityY = newVelocityY, !.velocityX = newVelocityX]

\* faulty variant: the flap ignores the control flip
flapBirdAlways(bird, isControlFlipped) == [bird EXCEPT !.velocityY = FLAP_FORCE]

flapBird(bird, isControlFlipped) ==
    IF isControlFlipped THEN bird ELSE [bird EXCEPT !.velocityY = FLAP_FORCE]

(***************************************************************************)
(* game/Pipe.ts                                                            *)
(***************************************************************************)
\* faulty variant: the band of the gap centre leaves no margin at the top
createPipeNoMargin(phase, isGhost, hasDelayedCollision, gapMultiplier, modeConfig, gapDraw, seedDraw, spawnTime) ==
    LET gapReduction == Max(0, phase - 2) * GAP_SHRINK_PER_PHASE
        gapSize == Scale(Scale(Max(MIN_GAP_SIZE, GAP_SIZE - gapReduction) * Micro,
                               modeConfig.pipeGapMultiplier), gapMultiplier)
        minY == gapSize \div 2
        maxY == (CANVAS_HEIGHT - 50 - MIN_GAP_Y) * Micro - gapSize \div 2
        gapY == minY + gapDraw * ((maxY - minY) \div RandomScale)
    IN  [ x |-> CANVAS_WIDTH * Micro, gapY |-> gapY, gapSize |-> gapSize,
          isGhost |-> isGhost, oscillationOffset |-> 0,
          oscillationSeed |-> (seedDraw * 2 * PiMrad) \div RandomScale,
          passed |-> FALSE, scored |-> FALSE,
          spawnTime |-> spawnTime, hasDelayedCollision |-> hasDelayedCollision ]

\* gapDraw and seedDraw are the two Math.random() draws, spawnTime is Date.now()
createPipe(phase, isGhost, hasDelayedCollision, gapMultiplier, modeConfig, gapDraw, seedDraw, spawnTime) ==
    LET gapReduction == Max(0, phase - 2) * GAP_SHRINK_PER_PHASE
        gapSize == Scale(Scale(Max(MIN_GAP_SIZE, GAP_SIZE - gapReduction) * Micro,
                               modeConfig.pipeGapMultiplier), gapMultiplier)
        minY == MIN_GAP_Y * Micro + gapSize \div 2
        maxY == (CANVAS_HEIGHT - 50 - MIN_GAP_Y) * Micro - gapSize \div 2
        gapY == minY + gapDraw * ((maxY - minY) \div RandomScale)
    IN  [ x |-> CANVAS_WIDTH * Micro, gapY |-> gapY, gapSize |-> gapSize,
          isGhost |-> isGhost, oscillationOffset |-> 0,
          oscillationSeed |-> (seedDraw * 2 * PiMrad) \div RandomScale,
          passed |-> FALSE, scored |-> FALSE,
          spawnTime |-> spawnTime, hasDelayedCollision |-> hasDelayedCollision ]

updatePipe(pipe, speed, phase, enableOscillation, gameTime, modeConfig) ==
    LET newX == pipe.x - speed
        phaseMultiplier == IF phase >= 9 THEN 140 ELSE IF phase >= 7 THEN 120 ELSE 100
        \* amplitude in milli-pixels
        amplitude == Scale(Scale(OSCILLATION_AMPLITUDE * 1000,
                                 modeConfig.oscillationAmplitudeMultiplier), phaseMultiplier)
        \* gameTime (ms) * OSCILLATION_SPEED * (1 + min(phase - 3, 4) * 0.1), in milliradians
        angle == (gameTime * OSCILLATION_SPEED * (10 + Min(phase - 3, 4))) \div 10000
                    + pipe.oscillationSeed
        oscillationOffset == IF enableOscillation THEN Sin1000(angle) * amplitude ELSE 0
    IN  [pipe EXCEPT !.x = newX, !.oscillationOffset = oscillationOffset]

\* faulty variant: a pipe counts as off screen once its left edge has left
isPipeOffScreenEarly(pipe) == pipe.x < 0

isPipeOffScreen(pipe) == pipe.x + PIPE_WIDTH * Micro < 0

\* faulty variant: the test of the scored flag is missing
checkAndScorePipeUnguarded(pipe, birdX) ==
    LET pipeCenterX == pipe.x + (PIPE_WIDTH * Micro) \div 2
    IN  IF birdX > pipeCenterX
        THEN [scored |-> TRUE, pipe |-> [pipe EXCEPT !.scored = TRUE, !.passed = TRUE]]
        ELSE [scored |-> FALSE, pipe |-> pipe]

checkAndScorePipe(pipe, birdX) ==
    LET pipeCenterX == pipe.x + (PIPE_WIDTH * Micro) \div 2
    IN  IF ~pipe.scored /\ birdX > pipeCenterX
        THEN [scored |-> TRUE, pipe |-> [pipe EXCEPT !.scored = TRUE, !.passed = TRUE]]
        ELSE [scored |-> FALSE, pipe |-> pipe]

shouldBeGhostPipe(phase, draw) ==
    IF phase < 6 THEN FALSE
    ELSE draw < GHOST_PIPE_BASE_PROBABILITY + (phase - 6) * GHOST_PIPE_PHASE_MULTIPLIER

shouldHaveDelayedCollision(phase, draw) ==
    IF phase < 8 THEN FALSE ELSE draw * 100 < 25 * RandomScale

\* faulty variant: the forgiveness of the mode is not added to the window
isDelayedCollisionActiveUnforgiving(pipe, forgivenessMs, dateNow) ==
    IF ~pipe.hasDelayedCollision THEN TRUE
    ELSE dateNow - pipe.spawnTime > DELAYED_COLLISION_MS

\* dateNow is Date.now()
isDelayedCollisionActive(pipe, forgivenessMs, dateNow) ==
    IF ~pipe.hasDelayedCollision THEN TRUE
    ELSE dateNow - pipe.spawnTime > DELAYED_COLLISION_MS + forgivenessMs

(***************************************************************************)
(* game/Collision.ts                                                       *)
(***************************************************************************)
\* the box test of checkPipeCollision; useOffset says whether the gap follows
\* the oscillation, solid whether a ghost pipe is treated as a solid one
boxCollision(bird, pipe, forgivenessMs, dateNow, useOffset, solid) ==
    IF pipe.isGhost /\ ~solid THEN FALSE
    ELSE IF ~isDelayedCollisionActive(pipe, forgivenessMs, dateNow) THEN FALSE
    ELSE LET effectiveGapY == pipe.gapY + (IF useOffset THEN pipe.oscillationOffset ELSE 0)
             gapTop == effectiveGapY - pipe.gapSize \div 2
             gapBottom == effectiveGapY + pipe.gapSize \div 2
             horizontalOverlap == bird.x + bird.width > pipe.x
                                    /\ bird.x < pipe.x + PIPE_WIDTH * Micro
             withinGap == bird.y > gapTop /\ bird.y + bird.height < gapBottom
         IN  IF ~horizontalOverlap THEN FALSE ELSE ~withinGap

\* faulty variant: ghost pipes collide like solid ones
checkPipeCollisionSolidGhost(bird, pipe, forgivenessMs, dateNow) ==
    boxCollision(bird, pipe, forgivenessMs, dateNow, TRUE, TRUE)

\* faulty variant: the gap is tested where it was spawned, without the oscillation
checkPipeCollisionStillGap(bird, pipe, forgivenessMs, dateNow) ==
    boxCollision(bird, pipe, forgivenessMs, dateNow, FALSE, FALSE)

checkPipeCollision(bird, pipe, forgivenessMs, dateNow) ==
    IF pipe.isGhost THEN FALSE
    ELSE IF ~isDelayedCollisionActive(pipe, forgivenessMs, dateNow) THEN FALSE
    ELSE LET pipeLeft == pipe.x
             pipeRight == pipe.x + PIPE_WIDTH * Micro
             effectiveGapY == pipe.gapY + pipe.oscillationOffset
             gapTop == effectiveGapY - pipe.gapSize \div 2
             gapBottom == effectiveGapY + pipe.gapSize \div 2
             birdLeft == bird.x
             birdRight == bird.x + bird.width
             birdTop == bird.y
             birdBottom == bird.y + bird.height
             horizontalOverlap == birdRight > pipeLeft /\ birdLeft < pipeRight
             withinGap == birdTop > gapTop /\ birdBottom < gapBottom
         IN  IF ~horizontalOverlap THEN FALSE ELSE ~withinGap

\* faulty variant: touching the ground line is not yet a collision
checkGroundCollisionStrict(bird) ==
    LET groundY == (CANVAS_HEIGHT - 50) * Micro
    IN  bird.y + bird.height > groundY

checkGroundCollision(bird) ==
    LET groundY == (CANVAS_HEIGHT - 50) * Micro
    IN  bird.y + bird.height >= groundY

checkAllPipeCollisions(bird, pipes, forgivenessMs, dateNow) ==
    \E i \in 1..Len(pipes) : checkPipeCollision(bird, pipes[i], forgivenessMs, dateNow)

checkAllCollisions(bird, pipes, forgivenessMs, dateNow) ==
    IF checkGroundCollision(bird) THEN [hit |-> TRUE, type |-> "ground"]
    ELSE IF checkAllPipeCollisions(bird, pipes, forgivenessMs, dateNow)
    THEN [hit |-> TRUE, type |-> "pipe"]
    ELSE [hit |-> FALSE, type |-> "none"]

(***************************************************************************)
(* components/Game.tsx                                                     *)
(***************************************************************************)
createInitialState(mode) ==
    [ bird |-> createBird, pipes |-> <<>>, score |-> 0, timeAlive |-> 0, phase |-> 1,
      isPlaying |-> FALSE, isGameOver |-> FALSE, hasStarted |-> FALSE,
      isControlFlipped |-> FALSE, controlFlipEndTime |-> 0,
      controlFlipWarning |-> FALSE, controlFlipWarningEndTime |-> 0,
      isHoldingInput |-> FALSE,
      gameMode |-> mode, modeConfig |-> getModeConfig(mode),
      isSlowMotion |-> FALSE, slowMotionEndTime |-> 0, timeScale |-> 100,
      phaseChangeDisplay |-> 0, phaseChangeDisplayEndTime |-> 0,
      isSystemOverload |-> FALSE, systemOverloadEndTime |-> 0 ]

\* spawnPipe: draws are the Math.random() values of the ghost test, the
\* delayed-collision test, the gap position and the oscillation seed
spawnPipe(s, draws, dateNow) ==
    LET config == getPhaseConfig(s.phase)
        isGhost == config.ghostPipes /\ shouldBeGhostPipe(s.phase, draws.ghost)
        hasDelayed == config.visualGlitch /\ shouldHaveDelayedCollision(s.phase, draws.delayed)
        newPipe == createPipe(s.phase, isGhost, hasDelayed, 100, s.modeConfig,
                              draws.gap, draws.seed, dateNow)
    IN  [s EXCEPT !.pipes = Append(s.pipes, newPipe)]

\* faulty variant: a flap after game over is not ignored
handleFlapAfterGameOver(s) ==
    IF ~s.hasStarted THEN s
    ELSE LET s1 == IF ~s.isPlaying THEN [s EXCEPT !.isPlaying = TRUE] ELSE s
         IN  IF ~s1.isControlFlipped
             THEN [s1 EXCEPT !.bird = flapBird(s1.bird, FALSE)]
             ELSE s1

\* handleFlap
handleFlap(s) ==
    IF s.isGameOver THEN s
    ELSE IF ~s.hasStarted THEN s
    ELSE LET s1 == IF ~s.isPlaying THEN [s EXCEPT !.isPlaying = TRUE] ELSE s
         IN  IF ~s1.isControlFlipped
             THEN [s1 EXCEPT !.bird = flapBird(s1.bird, FALSE)]
             ELSE s1

\* handleInputDown
handleInputDown(s) == handleFlap([s EXCEPT !.isHoldingInput = TRUE])

\* handleInputUp
handleInputUp(s) == [s EXCEPT !.isHoldingInput = FALSE]

\* handleStart and handleRestart build the same fresh state
startedState(mode) ==
    [createInitialState(mode) EXCEPT !.hasStarted = TRUE, !.isPlaying = TRUE]

\* faulty variant: survival time and phase outlive the restart
handleRestartKeepsTime(s) ==
    [startedState(s.gameMode) EXCEPT !.timeAlive = s.timeAlive, !.phase = s.phase]

handleRestart(s) == startedState(s.gameMode)

\* faulty variant: the toggle switches the mode and leaves the old profile
handleToggleModeKeepsProfile(s) ==
    IF s.hasStarted THEN s
    ELSE [s EXCEPT !.gameMode = IF s.gameMode = "CHAOS" THEN "DEMO" ELSE "CHAOS"]

\* handleToggleMode
handleToggleMode(s) ==
    IF s.hasStarted THEN s
    ELSE LET newMode == IF s.gameMode = "CHAOS" THEN "DEMO" ELSE "CHAOS"
         IN  [s EXCEPT !.gameMode = newMode, !.modeConfig = getModeConfig(newMode)]

\* faulty variant: the half second is subtracted instead of added
jumpTargetTimeEarly(phase) == (phase - 1) * 15000 - 500

\* faulty variant: the jump lands on the first instant of the phase
jumpTargetTimeStart(phase) == (phase - 1) * 15000

\* jumpToPhase: time of survival written by a jump to phase
jumpTargetTime(phase) == (phase - 1) * 15000 + 500

\* faulty variant: the jump is not refused after the game is over
jumpToPhaseAfterGameOver(s, phase, perfNow) ==
    IF ~s.hasStarted THEN s
    ELSE [s EXCEPT !.timeAlive = jumpTargetTime(phase),
                   !.phase = phase,
                   !.phaseChangeDisplay = phase,
                   !.phaseChangeDisplayEndTime = perfNow + BANNER_DURATION,
                   !.isSlowMotion = TRUE,
                   !.slowMotionEndTime = perfNow + PHASE_CHANGE_DURATION,
                   !.timeScale = TIME_SCALE]

jumpToPhase(s, phase, perfNow) ==
    IF ~s.hasStarted \/ s.isGameOver THEN s
    ELSE [s EXCEPT !.timeAlive = jumpTargetTime(phase),
                   !.phase = phase,
                   !.phaseChangeDisplay = phase,
                   !.phaseChangeDisplayEndTime = perfNow + BANNER_DURATION,
                   !.isSlowMotion = TRUE,
                   !.slowMotionEndTime = perfNow + PHASE_CHANGE_DURATION,
                   !.timeScale = TIME_SCALE]

(***************************************************************************)
(* gameLoop, stage by stage                                                *)
(***************************************************************************)
\* faulty variant: the operands of the frame delta are swapped
frameDeltaSwapped(timestamp, last) == IF last # 0 THEN last - timestamp ELSE 0

\* frame delta in milliseconds
frameDelta(timestamp, last) == IF last # 0 THEN timestamp - last ELSE 0

\* faulty variant: the end of the slow motion leaves the time scale reduced
slowMotionStateKeepsScale(s, timestamp) ==
    IF s.isSlowMotion /\ timestamp > s.slowMotionEndTime
    THEN [s EXCEPT !.isSlowMotion = FALSE]
    ELSE s

\* "Apply slow motion": the state and the delta after the block
slowMotionState(s, timestamp) ==
    IF s.isSlowMotion /\ timestamp > s.slowMotionEndTime
    THEN [s EXCEPT !.isSlowMotion = FALSE, !.timeScale = 100]
    ELSE s

slowMotionDelta(s, timestamp, deltaTime) ==
    IF s.isSlowMotion /\ ~(timestamp > s.slowMotionEndTime)
    THEN Scale(deltaTime, s.timeScale)
    ELSE deltaTime

\* faulty variant: the survival clock keeps running during the freeze
overloadTickClockRuns(s, timestamp) ==
    IF timestamp > s.systemOverloadEndTime
    THEN [s EXCEPT !.isSystemOverload = FALSE]
    ELSE [s EXCEPT !.timeAlive = @ + 16]

\* the branch taken while the system-overload freeze is active
overloadTick(s, timestamp) ==
    IF timestamp > s.systemOverloadEndTime
    THEN [s EXCEPT !.isSystemOverload = FALSE]
    ELSE s

\* "Update time alive" and "Update phase"
phaseStage(s, timestamp, deltaTime) ==
    LET timeAlive == s.timeAlive + deltaTime
        newPhase == getCurrentPhase(timeAlive)
        previousPhase == s.phase
        s1 == [s EXCEPT !.timeAlive = timeAlive]
        s2 == IF newPhase # previousPhase THEN [s1 EXCEPT !.phase = newPhase] ELSE s1
        s3 == IF newPhase # previousPhase /\ shouldShowPhaseBanner(newPhase, previousPhase)
              THEN [s2 EXCEPT !.phaseChangeDisplay = newPhase,
                              !.phaseChangeDisplayEndTime = timestamp + BANNER_DURATION,
                              !.isSlowMotion = TRUE,
                              !.slowMotionEndTime = timestamp + PHASE_CHANGE_DURATION,
                              !.timeScale = TIME_SCALE]
              ELSE s2
        s4 == IF newPhase # previousPhase /\ newPhase \in TRIGGER_PHASES
              THEN [s3 EXCEPT !.isSystemOverload = TRUE,
                              !.systemOverloadEndTime = timestamp + FREEZE_DURATION]
              ELSE s3
    IN  IF s4.phaseChangeDisplay # 0 /\ timestamp > s4.phaseChangeDisplayEndTime
        THEN [s4 EXCEPT !.phaseChangeDisplay = 0]
        ELSE s4

\* faulty variant: the activation leaves the warning flag set
controlFlipStageKeepsWarning(s, timestamp, draw) ==
    LET config == getPhaseConfig(s.phase)
        s1 == IF shouldTriggerControlFlip(s, config, draw)
              THEN [s EXCEPT !.controlFlipWarning = TRUE,
                             !.controlFlipWarningEndTime = timestamp + CONTROL_FLIP_WARNING]
              ELSE s
        s2 == IF s1.controlFlipWarning /\ ~s1.isControlFlipped
                    /\ timestamp > s1.controlFlipWarningEndTime
              THEN [s1 EXCEPT !.isControlFlipped = TRUE,
                              !.controlFlipEndTime =
                                  timestamp + getControlFlipDuration(s1.modeConfig)]
              ELSE s1
    IN  IF s2.isControlFlipped /\ timestamp > s2.controlFlipEndTime
        THEN [s2 EXCEPT !.isControlFlipped = FALSE, !.controlFlipWarning = FALSE]
        ELSE s2

\* "Handle control flip warning and activation"
controlFlipStage(s, timestamp, draw) ==
    LET config == getPhaseConfig(s.phase)
        s1 == IF shouldTriggerControlFlip(s, config, draw)
              THEN [s EXCEPT !.controlFlipWarning = TRUE,
                             !.controlFlipWarningEndTime = timestamp + CONTROL_FLIP_WARNING]
              ELSE s
        s2 == IF s1.controlFlipWarning /\ timestamp > s1.controlFlipWarningEndTime
              THEN [s1 EXCEPT !.controlFlipWarning = FALSE,
                              !.isControlFlipped = TRUE,
                              !.controlFlipEndTime =
                                  timestamp + getControlFlipDuration(s1.modeConfig)]
              ELSE s1
    IN  IF s2.isControlFlipped /\ timestamp > s2.controlFlipEndTime
        THEN [s2 EXCEPT !.isControlFlipped = FALSE]
        ELSE s2

\* "Update bird physics"
birdStage(s) ==
    LET config == getPhaseConfig(s.phase)
        gravity == calculateGravity(s.phase, s.timeAlive, config, s.modeConfig).gravity
        windForce == calculateWindForce(s.phase, s.timeAlive, config, s.modeConfig)
    IN  [s EXCEPT !.bird = updateBird(s.bird, gravity, windForce, s.isControlFlipped,
                                      s.isHoldingInput,
                                      s.modeConfig.controlFlipForceMultiplier)]

\* "Spawn pipes": is a pipe due at this timestamp
spawnDue(s, timestamp, lastSpawn) ==
    timestamp - lastSpawn > Scale(SPAWN_INTERVAL, s.modeConfig.pipeSpawnMultiplier)

RECURSIVE movePipes(_, _, _)
\* the map of "Update pipes and check scoring" over pipes[i..]
movePipes(s, pipeSpeed, i) ==
    IF i > Len(s.pipes) THEN <<>>
    ELSE LET config == getPhaseConfig(s.phase)
             updatedPipe == updatePipe(s.pipes[i], pipeSpeed, s.phase, config.pipeOscillation,
                                       s.timeAlive, s.modeConfig)
         IN  <<checkAndScorePipe(updatedPipe, s.bird.x)>> \o movePipes(s, pipeSpeed, i + 1)

\* faulty variant: every pipe that carries the scored flag is counted again
pipeStageCountsFlags(s) ==
    LET config == getPhaseConfig(s.phase)
        pipeSpeed == calculatePipeSpeed(s.phase, s.timeAlive, config, s.modeConfig)
        results == movePipes(s, pipeSpeed, 1)
        moved == [i \in 1..Len(results) |-> results[i].pipe]
        scoreIncrement == Cardinality({i \in 1..Len(results) : results[i].pipe.scored})
    IN  [s EXCEPT !.pipes = SelectSeq(moved, LAMBDA pipe : ~isPipeOffScreen(pipe)),
                  !.score = IF scoreIncrement > 0 THEN s.score + scoreIncrement ELSE s.score]

\* "Update pipes and check scoring" and "Apply score increment"
pipeStage(s) ==
    LET config == getPhaseConfig(s.phase)
        pipeSpeed == calculatePipeSpeed(s.phase, s.timeAlive, config, s.modeConfig)
        results == movePipes(s, pipeSpeed, 1)
        moved == [i \in 1..Len(results) |-> results[i].pipe]
        scoreIncrement == Cardinality({i \in 1..Len(results) : results[i].scored})
    IN  [s EXCEPT !.pipes = SelectSeq(moved, LAMBDA pipe : ~isPipeOffScreen(pipe)),
                  !.score = IF scoreIncrement > 0 THEN s.score + scoreIncrement ELSE s.score]

\* "Check collisions"
collisionStage(s, dateNow) ==
    IF checkAllCollisions(s.bird, s.pipes, s.modeConfig.collisionForgivenessMs, dateNow).hit
    THEN [s EXCEPT !.isGameOver = TRUE, !.isPlaying = FALSE]
    ELSE s

\* which Math.random() draws a processed tick consumes
flipDrawUsed(s) ==
    /\ getPhaseConfig(s.phase).controlFlip
    /\ ~s.isControlFlipped /\ ~s.controlFlipWarning
    /\ ~(s.phase = 5 /\ JsMod(s.timeAlive, PHASE_DURATION) < 1000)

\* the state after one gameLoop(timestamp) call
gameLoop(s, timestamp, last, lastSpawn, flipDraw, draws) ==
    LET deltaTime == slowMotionDelta(s, timestamp, frameDelta(timestamp, last))
        s0 == slowMotionState(s, timestamp)
    IN  IF ~(s0.isPlaying /\ ~s0.isGameOver) THEN s0
        ELSE IF s0.isSystemOverload THEN overloadTick(s0, timestamp)
        ELSE LET s1 == phaseStage(s0, timestamp, deltaTime)
                 s2 == controlFlipStage(s1, timestamp, flipDraw)
                 s3 == birdStage(s2)
                 s4 == IF spawnDue(s3, timestamp, lastSpawn)
                       THEN spawnPipe(s3, draws, timestamp) ELSE s3
                 s5 == pipeStage(s4)
             IN  collisionStage(s5, timestamp)

(***************************************************************************)
(* The game as a state machine                                             *)
(***************************************************************************)
NoProbe == [fn |-> "none"]

Init ==
    /\ state = createInitialState("CHAOS")
    /\ lastTime = 0
    /\ lastPipeSpawn = 0
    /\ now = 0
    /\ lastOp = "init"
    /\ frames = 0
    /\ longFrames = 0
    /\ inputs = 0
    /\ restarts = 0
    /\ probe = NoProbe

\* the frame deltas offered to the next frame
FrameDeltas ==
    IF frames < InputWindow /\ longFrames < MaxLongFrames
    THEN {ShortFrame, LongFrame} ELSE {ShortFrame}

\* the values offered to a Math.random() draw of the next frame
Draws(used) ==
    IF ~used THEN {LikelyDraw}
    ELSE IF frames < InputWindow THEN RandomDraws ELSE {LikelyDraw}

\* the draws of one gameLoop call
TickDraws(s, timestamp, lastSpawn) ==
    LET s0 == slowMotionState(s, timestamp)
        processed == s0.isPlaying /\ ~s0.isGameOver /\ ~s0.isSystemOverload
        s1 == phaseStage(s0, timestamp,
                         slowMotionDelta(s, timestamp, frameDelta(timestamp, lastTime)))
        spawns == processed /\ spawnDue(s1, timestamp, lastSpawn)
        config == getPhaseConfig(s1.phase)
    IN  [ flip    : Draws(processed /\ flipDrawUsed(s1)),
          ghost   : Draws(spawns /\ config.ghostPipes),
          delayed : Draws(spawns /\ config.visualGlitch),
          gap     : GapDraws,
          seed    : SeedDraws ]

\* one animation frame: gameLoop(timestamp) with timestamp = now + d
Tick ==
    \E d \in FrameDeltas :
        /\ frames < MaxFrames
        /\ state.hasStarted \/ frames < MaxIdleFrames
        /\ \E draws \in TickDraws(state, now + d, lastPipeSpawn) :
            LET timestamp == now + d
                s0 == slowMotionState(state, timestamp)
                processed == s0.isPlaying /\ ~s0.isGameOver /\ ~s0.isSystemOverload
                s1 == phaseStage(s0, timestamp,
                                 slowMotionDelta(state, timestamp, frameDelta(timestamp, lastTime)))
            IN  /\ state' = gameLoop(state, timestamp, lastTime, lastPipeSpawn, draws.flip, draws)
                /\ lastPipeSpawn' = IF processed /\ spawnDue(s1, timestamp, lastPipeSpawn)
                                    THEN timestamp ELSE lastPipeSpawn
                /\ lastTime' = timestamp
                /\ now' = timestamp
        /\ frames' = frames + 1
        /\ longFrames' = IF d = LongFrame THEN longFrames + 1 ELSE longFrames
        /\ lastOp' = "tick"
        /\ UNCHANGED <<inputs, restarts, probe>>

\* an input event may arrive
InputAllowed == inputs < MaxInputs /\ (frames <= InputWindow \/ state.isGameOver)

\* a press of space, mouse button or touch
InputDown ==
    /\ InputAllowed
    /\ state' = handleInputDown(state)
    /\ inputs' = IF state' = state THEN inputs ELSE inputs + 1
    /\ lastOp' = "inputDown"
    /\ UNCHANGED <<lastTime, lastPipeSpawn, now, frames, longFrames, restarts, probe>>

\* the release of a held input
InputUp ==
    /\ InputAllowed
    /\ state.isHoldingInput
    /\ state' = handleInputUp(state)
    /\ inputs' = IF state' = state THEN inputs ELSE inputs + 1
    /\ lastOp' = "inputUp"
    /\ UNCHANGED <<lastTime, lastPipeSpawn, now, frames, longFrames, restarts, probe>>

\* handleStart(mode), offered by the start screen
Start ==
    \E mode \in GameModes :
        /\ ~state.hasStarted
        /\ state' = startedState(mode)
        /\ lastPipeSpawn' = now
        /\ lastOp' = "start"
        /\ UNCHANGED <<lastTime, now, frames, longFrames, inputs, restarts, probe>>

\* key M
ToggleMode ==
    /\ InputAllowed
    /\ state' = handleToggleMode(state)
    /\ inputs' = IF state' = state THEN inputs ELSE inputs + 1
    /\ lastOp' = "toggleMode"
    /\ UNCHANGED <<lastTime, lastPipeSpawn, now, frames, longFrames, restarts, probe>>

\* handleRestart, offered by the game-over screen
Restart ==
    /\ state.isGameOver
    /\ restarts < MaxRestarts
    /\ state' = handleRestart(state)
    /\ lastPipeSpawn' = now
    /\ restarts' = restarts + 1
    /\ lastOp' = "restart"
    /\ UNCHANGED <<lastTime, now, frames, longFrames, inputs, probe>>

\* keys 1..9
JumpToPhase ==
    \E key \in JumpKeys :
        /\ InputAllowed
        /\ state' = jumpToPhase(state, key, now)
        /\ inputs' = IF state' = state THEN inputs ELSE inputs + 1
        /\ lastOp' = "jumpToPhase"
        /\ UNCHANGED <<lastTime, lastPipeSpawn, now, frames, longFrames, restarts, probe>>

Next ==
    \/ Tick
    \/ InputDown
    \/ InputUp
    \/ Start
    \/ ToggleMode
    \/ Restart
    \/ JumpToPhase

Spec == Init /\ [][Next]_vars

(***************************************************************************)
(* The pure rules of PhaseManager.ts applied to drawn arguments            *)
(***************************************************************************)
\* survival times around the phase boundaries, in milliseconds
ProbeTimes ==
    { (p - 1) * PHASE_DURATION + o :
        p \in 1..MaxProbePhase, o \in {0, 1, PHASE_DURATION \div 2, PHASE_DURATION - 1} }

ProbePhases == 0..MaxProbePhase

\* a pair of arguments x, y and the results rx, ry of the rule fn
RulesInit ==
    /\ state = createInitialState("CHAOS")
    /\ lastTime = 0
    /\ lastPipeSpawn = 0
    /\ now = 0
    /\ lastOp = "init"
    /\ frames = 0
    /\ longFrames = 0
    /\ inputs = 0
    /\ restarts = 0
    /\ probe \in [fn : {"time"}, x : ProbeTimes, y : ProbeTimes, rx : {0}, ry : {0}]
                   \cup [fn : {"phase"}, x : ProbePhases, y : ProbePhases, rx : {0}, ry : {0}]

ApplyGetCurrentPhase ==
    /\ probe.fn = "time"
    /\ probe' = [probe EXCEPT !.fn = "getCurrentPhase",
                              !.rx = getCurrentPhase(probe.x),
                              !.ry = getCurrentPhase(probe.y)]
    /\ UNCHANGED <<state, lastTime, lastPipeSpawn, now, lastOp, frames, longFrames, inputs, restarts>>

ApplyGetPhaseConfig ==
    /\ probe.fn = "phase"
    /\ probe' = [probe EXCEPT !.fn = "getPhaseConfig",
                              !.rx = getPhaseConfig(probe.x),
                              !.ry = getPhaseConfig(probe.y)]
    /\ UNCHANGED <<state, lastTime, lastPipeSpawn, now, lastOp, frames, longFrames, inputs, restarts>>

RulesNext ==
    \/ ApplyGetCurrentPhase
    \/ ApplyGetPhaseConfig

PhaseRules == RulesInit /\ [][RulesNext]_vars

(***************************************************************************)
(* System-overload freeze                                                  *)
(***************************************************************************)
\* C1: a gameLoop tick that starts while isSystemOverload is true leaves
\* timeAlive, the bird's position, the pipe list and the score unchanged.
C1_FrozenTickKeepsWorld ==
    [][ (lastOp' = "tick" /\ state.isSystemOverload) =>
            /\ state'.timeAlive = state.timeAlive
            /\ state'.bird.x = state.bird.x
            /\ state'.bird.y = state.bird.y
            /\ state'.pipes = state.pipes
            /\ state'.score = state.score ]_vars

\* a frozen tick of a running game has just been executed, with a pipe on screen
C1_FrozenTickSeen ==
    /\ lastOp = "tick"
    /\ state.isPlaying
    /\ state.isSystemOverload
    /\ state.systemOverloadEndTime < now + FREEZE_DURATION
    /\ Len(state.pipes) > 0

\* C2: a press (handleInputDown -> handleFlap) that arrives while
\* isSystemOverload is true changes neither the bird's velocityY nor its position.
C2_PressWhileFrozenIgnored ==
    [][ (lastOp' = "inputDown" /\ state.isSystemOverload) =>
            /\ state'.bird.velocityY = state.bird.velocityY
            /\ state'.bird.x = state.bird.x
            /\ state'.bird.y = state.bird.y ]_vars

\* a press has just given the bird the flap velocity in the middle of a freeze
C2_FlapDuringFreeze ==
    /\ lastOp = "inputDown"
    /\ state.isPlaying
    /\ state.isSystemOverload
    /\ now <= state.systemOverloadEndTime
    /\ state.bird.velocityY = FLAP_FORCE

\* the phase changed to 3, 6 or 9 in this step, by a tick or by jumpToPhase
EntersTriggerPhase ==
    /\ lastOp' \in {"tick", "jumpToPhase"}
    /\ state'.phase # state.phase
    /\ state'.phase \in {3, 6, 9}

\* C3: isSystemOverload becomes true exactly when the game enters phase 3, 6
\* or 9: every such entry, by a tick or by jumpToPhase, starts a freeze, and no
\* freeze starts in any other step.
C3_FreezeExactlyOnEntry ==
    [][ /\ EntersTriggerPhase => state'.isSystemOverload
        /\ (~state.isSystemOverload /\ state'.isSystemOverload) => EntersTriggerPhase ]_vars

\* jumpToPhase has just put a running game into phase 3, 6 or 9 without a freeze
C3_JumpWithoutFreeze ==
    /\ lastOp = "jumpToPhase"
    /\ state.isPlaying
    /\ state.phase \in {3, 6, 9}
    /\ state.timeAlive = jumpTargetTime(state.phase)
    /\ ~state.isSystemOverload

\* C4: a tick whose timestamp exceeds systemOverloadEndTime ends the freeze,
\* and a tick of a running game that starts without a freeze adds the frame
\* delta to timeAlive again.
C4_FreezeEnds ==
    [][ lastOp' = "tick" =>
            /\ (state.isSystemOverload /\ now' > state.systemOverloadEndTime)
                    => ~state'.isSystemOverload
            /\ (state.isPlaying /\ ~state.isSystemOverload /\ lastTime # 0)
                    => state'.timeAlive > state.timeAlive ]_vars

\* ticks arrive after the deadline of the freeze and the freeze is still on
C4_FreezeOutlivesDeadline ==
    /\ lastOp = "tick"
    /\ state.isSystemOverload
    /\ now > state.systemOverloadEndTime + FREEZE_DURATION

(***************************************************************************)
(* Survival time and phase                                                 *)
(***************************************************************************)
\* the step stays within the play session (it is no handleStart or handleRestart)
SameSession == lastOp' \notin {"start", "restart"}

\* C5 as stated: within a play session no tick, input event or jumpToPhase
\* call lowers timeAlive or phase.
C5_NeverDecreases ==
    [][ SameSession =>
            /\ state'.timeAlive >= state.timeAlive
            /\ state'.phase >= state.phase ]_vars

\* C5, amended: within a play session no tick, press, release or mode key
\* lowers timeAlive or phase; a jumpToPhase call that acts sets them to the
\* half second after the start of the chosen phase, whether higher or lower.
C5_NeverDecreasesButByJump ==
    [][ /\ (SameSession /\ lastOp' # "jumpToPhase") =>
                /\ state'.timeAlive >= state.timeAlive
                /\ state'.phase >= state.phase
        /\ (lastOp' = "jumpToPhase" /\ state' # state) =>
                /\ state'.phase \in 1..9
                /\ state'.timeAlive = (state'.phase - 1) * 15000 + 500 ]_vars

\* ticks have carried a running game from phase 2 into phase 3 and beyond the freeze
C5_TickedIntoPhase ==
    /\ lastOp = "tick"
    /\ state.isPlaying
    /\ state.phase = 3
    /\ ~state.isSystemOverload
    /\ state.timeAlive > 2 * PHASE_DURATION + 500

IsPhaseOf(p, t) == (p - 1) * (15 * 1000) <= t /\ t < p * (15 * 1000)

\* C7: for every survival time t >= 0, getCurrentPhase(t) = floor(t / 15) + 1,
\* and getCurrentPhase is non-decreasing in t.
C7_PhaseOfTime ==
    probe.fn = "getCurrentPhase" =>
        /\ IsPhaseOf(probe.rx, probe.x)
        /\ IsPhaseOf(probe.ry, probe.y)
        /\ probe.x <= probe.y => probe.rx <= probe.ry

\* the rule was applied to the last millisecond of phase 1 and the first of phase 2
C7_BoundaryProbed ==
    /\ probe.fn = "getCurrentPhase"
    /\ probe.x = PHASE_DURATION - 1
    /\ probe.y = PHASE_DURATION
    /\ probe.rx = 1
    /\ probe.ry = 2

\* the names of the mechanic flags of a PhaseConfig
Flags ==
    { "gravityDrift", "pipeOscillation", "windForce", "controlFlip",
      "ghostPipes", "speedDrift", "visualGlitch", "allUnstable" }

\* C8: for phases p < p' every flag of getPhaseConfig that is true at p is
\* true at p', and for p >= 9 all eight flags are true.
C8_FlagsMonotone ==
    probe.fn = "getPhaseConfig" =>
        /\ probe.x < probe.y => \A f \in Flags : probe.rx[f] => probe.ry[f]
        /\ probe.x >= 9 => \A f \in Flags : probe.rx[f]
        /\ DOMAIN probe.rx = Flags

\* the rule was applied to phase 4 (wind on, control flip off) and to phase 9
C8_ThresholdsProbed ==
    /\ probe.fn = "getPhaseConfig"
    /\ probe.x = 4
    /\ probe.y = 9
    /\ probe.rx.windForce
    /\ ~probe.rx.controlFlip
    /\ probe.ry.allUnstable

(***************************************************************************)
(* Control inversion                                                       *)
(***************************************************************************)
\* the state of the control-inversion machine in game state s
FlipIdle(s) == ~s.controlFlipWarning /\ ~s.isControlFlipped
FlipWarning(s) == s.controlFlipWarning /\ ~s.isControlFlipped
FlipActive(s) == s.isControlFlipped /\ ~s.controlFlipWarning

\* C9: controlFlipWarning and isControlFlipped are never both true.
C9_WarningXorActive == ~(state.controlFlipWarning /\ state.isControlFlipped)

\* the inversion is active, its warning over
C9_ActiveSeen ==
    /\ lastOp = "tick"
    /\ state.isControlFlipped
    /\ state.controlFlipWarningEndTime > 0
    /\ now > state.controlFlipWarningEndTime

\* the tick of this step runs the control-flip block (it is neither frozen nor idle)
ProcessedTick ==
    /\ lastOp' = "tick"
    /\ state.isPlaying /\ ~state.isGameOver /\ ~state.isSystemOverload

\* C10: within a session the machine moves Idle -> Warning -> Active -> Idle
\* only.  A Warning sets its deadline 2000 ms after the tick that began it and
\* the deadline is never moved; Active is entered from Warning on a tick later
\* than that deadline and sets its own deadline getControlFlipDuration later
\* (5000 ms in CHAOS, 1500 ms in DEMO), which is never moved; Active ends on
\* the first processed tick later than its deadline.
C10_FlipCycle ==
    [][ SameSession =>
            /\ FlipIdle(state) => (FlipIdle(state') \/ FlipWarning(state'))
            /\ FlipWarning(state) => (FlipWarning(state') \/ FlipActive(state'))
            /\ FlipActive(state) => (FlipActive(state') \/ FlipIdle(state'))
            /\ (FlipIdle(state) /\ FlipWarning(state')) =>
                    /\ lastOp' = "tick"
                    /\ state'.controlFlipWarningEndTime = now' + 2000
            /\ (FlipWarning(state) /\ FlipWarning(state')) =>
                    state'.controlFlipWarningEndTime = state.controlFlipWarningEndTime
            /\ (FlipWarning(state) /\ FlipActive(state')) =>
                    /\ lastOp' = "tick"
                    /\ now' > state.controlFlipWarningEndTime
                    /\ state'.controlFlipEndTime =
                           now' + (IF state.gameMode = "CHAOS" THEN 5000 ELSE 1500)
            /\ FlipActive(state) =>
                    /\ state'.controlFlipEndTime = state.controlFlipEndTime
                    /\ state'.controlFlipWarningEndTime = state.controlFlipWarningEndTime
                    /\ FlipIdle(state') <=> (ProcessedTick /\ now' > state.controlFlipEndTime) ]_vars

\* a whole cycle has been completed in DEMO mode
C10_DemoCycleDone ==
    /\ lastOp = "tick"
    /\ state.gameMode = "DEMO"
    /\ FlipIdle(state)
    /\ state.controlFlipEndTime > 0
    /\ now > state.controlFlipEndTime

(***************************************************************************)
(* The rules of the bird applied to drawn game states                      *)
(***************************************************************************)
\* birds at the ceiling, in mid air and near the ground, at rest and at speed
ProbeBirds ==
    { [createBird EXCEPT !.y = y * Micro, !.velocityY = vy] :
        y \in {0, BIRD_INITIAL_Y, 2 * BIRD_INITIAL_Y},
        vy \in {MIN_VELOCITY, FLAP_FORCE, 0, MAX_VELOCITY} }

\* started games of both modes, running or over, at the probed survival times
ProbeStates ==
    { [startedState(mode) EXCEPT !.bird = bird,
                                 !.timeAlive = t,
                                 !.phase = getCurrentPhase(t),
                                 !.isControlFlipped = flipped,
                                 !.isHoldingInput = held,
                                 !.isGameOver = over,
                                 !.isPlaying = ~over] :
        mode \in GameModes, bird \in ProbeBirds, t \in ProbeTimes,
        flipped \in BOOLEAN, held \in BOOLEAN, over \in BOOLEAN }

NoResult == [none |-> TRUE]

BirdInit ==
    /\ state = createInitialState("CHAOS")
    /\ lastTime = 0
    /\ lastPipeSpawn = 0
    /\ now = 0
    /\ lastOp = "init"
    /\ frames = 0
    /\ longFrames = 0
    /\ inputs = 0
    /\ restarts = 0
    /\ probe \in [fn : {"state"}, s : ProbeStates, r : {NoResult}]

\* handleFlap on the drawn state and flapBird on its bird
ApplyFlap ==
    /\ probe.fn = "state"
    /\ probe' = [probe EXCEPT !.fn = "flap",
                              !.r = [ state |-> handleFlap(probe.s),
                                      bird  |-> flapBird(probe.s.bird,
                                                         probe.s.isControlFlipped) ]]
    /\ UNCHANGED <<state, lastTime, lastPipeSpawn, now, lastOp, frames, longFrames, inputs, restarts>>

\* the "Update bird physics" block of gameLoop on the drawn state
ApplyUpdateBird ==
    /\ probe.fn = "state"
    /\ LET s == probe.s
           config == getPhaseConfig(s.phase)
           gravity == calculateGravity(s.phase, s.timeAlive, config, s.modeConfig).gravity
       IN  probe' = [probe EXCEPT
                        !.fn = "updateBird",
                        !.r = [ gravity |-> gravity,
                                push    |-> VerticalPush(gravity, s.isControlFlipped,
                                                s.isHoldingInput,
                                                s.modeConfig.controlFlipForceMultiplier),
                                bird    |-> birdStage(s).bird ]]
    /\ UNCHANGED <<state, lastTime, lastPipeSpawn, now, lastOp, frames, longFrames, inputs, restarts>>

\* the wind forces calculateWindForce can return: none, and the gusts of
\* phase 4 and of the later phases to either side, in CHAOS
ProbeWinds ==
    { 0, WIND_UPWARD, WIND_DOWNWARD, Scale(WIND_UPWARD, 50), Scale(WIND_DOWNWARD, 50) }

\* updateBird on the bird of the drawn state, once for every probed wind
ApplyUpdateBirdInWind ==
    /\ probe.fn = "state"
    /\ LET s == probe.s
           config == getPhaseConfig(s.phase)
           gravity == calculateGravity(s.phase, s.timeAlive, config, s.modeConfig).gravity
       IN  probe' = [probe EXCEPT
                        !.fn = "updateBirdInWind",
                        !.r = [ birds |-> [ wind \in ProbeWinds |->
                                    updateBird(s.bird, gravity, wind, s.isControlFlipped,
                                               s.isHoldingInput,
                                               s.modeConfig.controlFlipForceMultiplier) ] ]]
    /\ UNCHANGED <<state, lastTime, lastPipeSpawn, now, lastOp, frames, longFrames, inputs, restarts>>

BirdNext ==
    \/ ApplyFlap
    \/ ApplyUpdateBird
    \/ ApplyUpdateBirdInWind

BirdRules == BirdInit /\ [][BirdNext]_vars

\* C11: a flap in normal mode sets the bird's velocityY to FLAP_FORCE (-7.5)
\* and changes no other bird field; while the control inversion is active a
\* flap (handleFlap, or flapBird with isControlFlipped = true) leaves the bird
\* unchanged.
C11_FlapEffect ==
    probe.fn = "flap" =>
        LET s == probe.s
            flapped == [s.bird EXCEPT !.velocityY = -7500000]
        IN  /\ probe.r.bird = IF s.isControlFlipped THEN s.bird ELSE flapped
            /\ ~s.isGameOver =>
                   probe.r.state.bird = IF s.isControlFlipped THEN s.bird ELSE flapped

\* a falling bird was flapped in normal mode
C11_FlappedInNormalMode ==
    /\ probe.fn = "flap"
    /\ ~probe.s.isControlFlipped /\ ~probe.s.isGameOver
    /\ probe.s.bird.velocityY = MAX_VELOCITY
    /\ probe.r.state.bird.velocityY = FLAP_FORCE
    /\ probe.r.bird.velocityY = FLAP_FORCE

\* C12: while the control inversion is active, in both modes and for every
\* gravity of the game, a tick with the input held adds
\* gravity * (2.5 m + 0.5 (1 - m)) > 0 to velocityY before clamping and a tick
\* with the input released adds gravity * (-1.2 m + 0.5 (1 - m)) < 0, where
\* m = controlFlipForceMultiplier (in percent below; the blend vanishes at m = 1).
C12_FlippedPush ==
    (probe.fn = "updateBird" /\ probe.s.isControlFlipped) =>
        LET m == probe.s.modeConfig.controlFlipForceMultiplier
            g == probe.r.gravity
        IN  /\ g > 0
            /\ m \in {50, 100}
            /\ probe.s.isHoldingInput =>
                   /\ probe.r.push > 0
                   /\ 200 * probe.r.push = g * (5 * m + (100 - m))
            /\ ~probe.s.isHoldingInput =>
                   /\ probe.r.push < 0
                   /\ 1000 * probe.r.push = g * (5 * (100 - m) - 12 * m)

\* a released input in DEMO mode, where the blend is at work, under heavy gravity
C12_DemoReleaseProbed ==
    /\ probe.fn = "updateBird"
    /\ probe.s.isControlFlipped
    /\ ~probe.s.isHoldingInput
    /\ probe.s.gameMode = "DEMO"
    /\ probe.r.gravity = Scale(HEAVY_GRAVITY, 80)
    /\ probe.r.push < 0

(***************************************************************************)
(* The pipe blocks of gameLoop, tick after tick, under a wandering bird      *)
(***************************************************************************)
\* survival time of the runs
PipeProbeTimes == {500}

\* the horizontal moves of the bird in one tick: as far as the clamp of
\* velocityX allows, to the left or to the right
BirdShifts == {-3 * Micro, 3 * Micro}

\* the pipes spawned in a run, numbered in spawn order
PipeIds == 1..(MaxPipeTicks \div PipeSpawnTicks + 1)
PipeId(pipe) == pipe.spawnTime \div PipeSpawnTicks + 1

PipeInit ==
    /\ state = createInitialState("CHAOS")
    /\ lastTime = 0
    /\ lastPipeSpawn = 0
    /\ now = 0
    /\ lastOp = "init"
    /\ frames = 0
    /\ longFrames = 0
    /\ inputs = 0
    /\ restarts = 0
    /\ probe \in [ fn      : {"pipes"},
                   s       : { [startedState(mode) EXCEPT !.timeAlive = t,
                                                          !.phase = getCurrentPhase(t)] :
                                  mode \in GameModes, t \in PipeProbeTimes },
                   ticks   : {0},
                   reports : {[id \in PipeIds |-> 0]},
                   gone    : {{}} ]

\* one tick of "Spawn pipes", "Update pipes and check scoring" and "Apply score
\* increment" after the bird has moved by dx; reports counts, per pipe, the
\* ticks on which checkAndScorePipe answered scored = true, gone collects the
\* pipes removed as off-screen
PipeTick ==
    /\ probe.fn = "pipes"
    /\ probe.ticks < MaxPipeTicks
    /\ \E dx \in BirdShifts :
        LET s0 == probe.s
            newX == Max(20 * Micro,
                        Min(CANVAS_WIDTH * Micro - s0.bird.width - 20 * Micro, s0.bird.x + dx))
            s1 == [s0 EXCEPT !.bird.x = newX]
            s2 == IF probe.ticks % PipeSpawnTicks = 0
                  THEN spawnPipe(s1, [ghost |-> LikelyDraw, delayed |-> LikelyDraw,
                                      gap |-> RandomScale \div 2, seed |-> 0], probe.ticks)
                  ELSE s1
            config == getPhaseConfig(s2.phase)
            results == movePipes(s2, calculatePipeSpeed(s2.phase, s2.timeAlive, config,
                                                        s2.modeConfig), 1)
            s3 == pipeStage(s2)
            scoredNow == { PipeId(results[i].pipe) : i \in {j \in 1..Len(results) : results[j].scored} }
            before == { PipeId(s2.pipes[i]) : i \in 1..Len(s2.pipes) }
            after == { PipeId(s3.pipes[i]) : i \in 1..Len(s3.pipes) }
        IN  probe' = [probe EXCEPT
                        !.s = s3,
                        !.ticks = @ + 1,
                        !.reports = [id \in PipeIds |->
                                        IF id \in scoredNow THEN @[id] + 1 ELSE @[id]],
                        !.gone = @ \cup (before \ after)]
    /\ UNCHANGED <<state, lastTime, lastPipeSpawn, now, lastOp, frames, longFrames, inputs, restarts>>

PipeNext == PipeTick

PipeRules == PipeInit /\ [][PipeNext]_vars

\* C13: a pipe's scored flag goes from false to true once and never back:
\* checkAndScorePipe answers scored = true for a pipe on at most one tick, the
\* flag is true exactly from that tick on, and every pipe removed as
\* off-screen has had that tick.
C13_ScoredOnce ==
    probe.fn = "pipes" =>
        /\ \A id \in PipeIds : probe.reports[id] <= 1
        /\ \A i \in 1..Len(probe.s.pipes) :
               probe.s.pipes[i].scored <=> probe.reports[PipeId(probe.s.pipes[i])] = 1
        /\ \A id \in probe.gone : probe.reports[id] = 1

\* the first pipe was scored and has left the screen, and the bird has fallen
\* back behind a later pipe that it had already scored
C13_PipeScoredAndGone ==
    /\ probe.fn = "pipes"
    /\ 1 \in probe.gone
    /\ probe.reports[1] = 1
    /\ \E i \in 1..Len(probe.s.pipes) :
           /\ probe.s.pipes[i].scored
           /\ probe.s.bird.x < probe.s.pipes[i].x

(***************************************************************************)
(* The collision rules applied to drawn birds and pipes                    *)
(***************************************************************************)
\* bird heights: the ceiling, around the edges of the probed gaps (175..375,
\* moved by the oscillation offset), around the ground line
ProbeBirdYs == {0, 175, 176, 230, 231, 295, 296, 350, 351, 525, 526}

\* pipe positions: off to the left, around both ends of the overlap with a
\* bird at BIRD_X_POSITION, and at the spawn position
ProbePipeXs == {-53, 28, 29, 80, 113, 114, CANVAS_WIDTH}

\* oscillation offsets, up to the amplitude
ProbeOffsets == {-OSCILLATION_AMPLITUDE, 0, OSCILLATION_AMPLITUDE}

\* Date.now() at the check, for pipes spawned at 0
ProbeClock == {0, 300, 301, 420, 421}

ProbePipes ==
    { [createPipe(1, ghost, delayed, 100, CHAOS_MODE_CONFIG, RandomScale \div 2, 0, 0)
            EXCEPT !.x = x * Micro, !.oscillationOffset = off * Micro] :
        x \in ProbePipeXs, off \in ProbeOffsets, ghost \in BOOLEAN, delayed \in BOOLEAN }

\* a solid pipe at the spawn position, far from the bird
FarPipe == createPipe(1, FALSE, FALSE, 100, CHAOS_MODE_CONFIG, RandomScale \div 2, 0, 0)

CollisionInit ==
    /\ state = createInitialState("CHAOS")
    /\ lastTime = 0
    /\ lastPipeSpawn = 0
    /\ now = 0
    /\ lastOp = "init"
    /\ frames = 0
    /\ longFrames = 0
    /\ inputs = 0
    /\ restarts = 0
    /\ probe \in [ fn : {"collision"},
                   bird : {[createBird EXCEPT !.y = y * Micro] : y \in ProbeBirdYs},
                   pipe : ProbePipes,
                   forgivenessMs : {getModeConfig(mode).collisionForgivenessMs : mode \in GameModes},
                   dateNow : ProbeClock,
                   r : {NoResult} ]

\* checkPipeCollision on the drawn pipe and on its twin without delayed collision
ApplyCheckPipeCollision ==
    /\ probe.fn = "collision"
    /\ probe' = [probe EXCEPT
                    !.fn = "checkPipeCollision",
                    !.r = [ hit  |-> checkPipeCollision(probe.bird, probe.pipe,
                                        probe.forgivenessMs, probe.dateNow),
                            twin |-> checkPipeCollision(probe.bird,
                                        [probe.pipe EXCEPT !.hasDelayedCollision = FALSE],
                                        probe.forgivenessMs, probe.dateNow) ]]
    /\ UNCHANGED <<state, lastTime, lastPipeSpawn, now, lastOp, frames, longFrames, inputs, restarts>>

\* checkAllCollisions with the drawn pipe behind a far one, and without pipes
ApplyCheckAllCollisions ==
    /\ probe.fn = "collision"
    /\ probe' = [probe EXCEPT
                    !.fn = "checkAllCollisions",
                    !.r = [ all   |-> checkAllCollisions(probe.bird, <<FarPipe, probe.pipe>>,
                                        probe.forgivenessMs, probe.dateNow),
                            clear |-> checkAllCollisions(probe.bird, <<>>,
                                        probe.forgivenessMs, probe.dateNow) ]]
    /\ UNCHANGED <<state, lastTime, lastPipeSpawn, now, lastOp, frames, longFrames, inputs, restarts>>

CollisionNext ==
    \/ ApplyCheckPipeCollision
    \/ ApplyCheckAllCollisions

CollisionRules == CollisionInit /\ [][CollisionNext]_vars

\* the bird's bottom edge is on or below the ground line (y = 550)
OnGround(bird) == bird.y + bird.height >= 550 * Micro

\* C14: checkPipeCollision answers false for every ghost pipe, wherever the
\* bird is and whatever the time; with a ghost pipe before the bird
\* checkAllCollisions reports a hit only for the ground.
C14_GhostNeverHits ==
    probe.pipe.isGhost =>
        /\ probe.fn = "checkPipeCollision" => ~probe.r.hit
        /\ probe.fn = "checkAllCollisions" =>
               /\ probe.r.all.type # "pipe"
               /\ probe.r.all.hit <=> OnGround(probe.bird)

\* a ghost pipe was checked against a bird inside its upper part, after the delay
C14_GhostOverlapProbed ==
    /\ probe.fn = "checkPipeCollision"
    /\ probe.pipe.isGhost
    /\ probe.pipe.x = BIRD_X_POSITION * Micro
    /\ probe.bird.y = 0
    /\ probe.dateNow = 421
    /\ ~probe.r.hit

\* C15: a pipe with delayed collision registers no hit while
\* now - spawnTime <= 300 ms + collisionForgivenessMs; afterwards it answers
\* exactly as the same pipe without delayed collision.
C15_DelayedCollisionWindow ==
    (probe.fn = "checkPipeCollision" /\ probe.pipe.hasDelayedCollision) =>
        IF probe.dateNow - probe.pipe.spawnTime <= 300 + probe.forgivenessMs
        THEN ~probe.r.hit
        ELSE probe.r.hit = probe.r.twin

\* in demo mode a delayed pipe the bird is inside was checked at 420 ms (no
\* hit, though its twin is hit)
C15_LastForgivenInstant ==
    /\ probe.fn = "checkPipeCollision"
    /\ probe.pipe.hasDelayedCollision
    /\ probe.forgivenessMs = 120
    /\ probe.dateNow = 420
    /\ probe.r.twin
    /\ ~probe.r.hit

\* the horizontal extents of bird and pipe [x, x + 52] overlap (in more than
\* an edge)
OverlapsPipe(bird, pipe) ==
    /\ bird.x + bird.width > pipe.x
    /\ bird.x < pipe.x + 52 * Micro

\* the bird's box lies fully inside the gap centred at gapY + oscillationOffset
\* (touching neither edge of it)
InsideGap(bird, pipe) ==
    /\ 2 * bird.y > 2 * (pipe.gapY + pipe.oscillationOffset) - pipe.gapSize
    /\ 2 * (bird.y + bird.height) < 2 * (pipe.gapY + pipe.oscillationOffset) + pipe.gapSize

\* the pipe is solid and past its delayed-collision window
ActivePipe ==
    /\ ~probe.pipe.isGhost
    /\ \/ ~probe.pipe.hasDelayedCollision
       \/ probe.dateNow - probe.pipe.spawnTime > 300 + probe.forgivenessMs

\* C16: for a non-ghost, active pipe a hit is registered exactly when the
\* bird overlaps the pipe horizontally and is not fully inside the gap
\* centred at gapY + oscillationOffset with height gapSize.
C16_HitIffOverlapOutsideGap ==
    (probe.fn = "checkPipeCollision" /\ ActivePipe) =>
        (probe.r.hit <=> (OverlapsPipe(probe.bird, probe.pipe)
                            /\ ~InsideGap(probe.bird, probe.pipe)))

\* a bird inside the oscillated gap, but outside the gap as spawned, was not hit
C16_OscillatedGapProbed ==
    /\ probe.fn = "checkPipeCollision"
    /\ ActivePipe
    /\ probe.pipe.oscillationOffset = OSCILLATION_AMPLITUDE * Micro
    /\ OverlapsPipe(probe.bird, probe.pipe)
    /\ probe.bird.y = 351 * Micro
    /\ ~probe.r.hit

\* C17: checkAllCollisions reports a hit whenever bird.y + bird.height >= 550,
\* whatever the pipes; a bird at the ceiling (y = 0) that overlaps no pipe
\* and is above the ground is never hit.
C17_GroundAlwaysCeilingNever ==
    probe.fn = "checkAllCollisions" =>
        /\ OnGround(probe.bird) => (probe.r.all.hit /\ probe.r.clear.hit)
        /\ (probe.bird.y = 0 /\ ~OnGround(probe.bird)) =>
               /\ ~probe.r.clear.hit
               /\ ~OverlapsPipe(probe.bird, probe.pipe) => ~probe.r.all.hit

\* a bird whose bottom edge is exactly on the ground line was checked with a
\* ghost pipe before it, and was hit
C17_GroundLineProbed ==
    /\ probe.fn = "checkAllCollisions"
    /\ probe.bird.y + probe.bird.height = 550 * Micro
    /\ probe.pipe.isGhost
    /\ OverlapsPipe(probe.bird, probe.pipe)
    /\ probe.r.all.hit

\* the pipe is solid, past its delayed-collision window, and the bird is in
\* its column outside the gap
HitsPipe(bird, pipe, forgivenessMs, dateNow) ==
    /\ ~pipe.isGhost
    /\ pipe.hasDelayedCollision => dateNow - pipe.spawnTime > 300 + forgivenessMs
    /\ OverlapsPipe(bird, pipe)
    /\ ~InsideGap(bird, pipe)

\* the bird of s is on the ground or hits a pipe of s
Collides(s, dateNow) ==
    \/ OnGround(s.bird)
    \/ \E i \in 1..Len(s.pipes) :
            HitsPipe(s.bird, s.pipes[i], s.modeConfig.collisionForgivenessMs, dateNow)

\* C18: a processed tick that ends with the bird on the ground or in a pipe
\* sets isGameOver = true and isPlaying = false (and no other tick does); from
\* a game-over state every step but handleRestart (tick, press, release,
\* jumpToPhase, mode key) leaves bird, pipes, score, timeAlive and phase as
\* they are, and the game over and not playing.
C18_GameOverTerminal ==
    [][ /\ ProcessedTick =>
               /\ state'.isGameOver <=> Collides(state', now')
               /\ state'.isGameOver => ~state'.isPlaying
        /\ (state.isGameOver /\ lastOp' # "restart") =>
               /\ state'.bird = state.bird
               /\ state'.pipes = state.pipes
               /\ state'.score = state.score
               /\ state'.timeAlive = state.timeAlive
               /\ state'.phase = state.phase
               /\ state'.isGameOver /\ ~state'.isPlaying
      ]_vars

\* after the game ended with the bird on the ground, a key 1..9 was pressed
\* while the input was held
C18_JumpAfterGameOver ==
    /\ state.isGameOver
    /\ OnGround(state.bird)
    /\ state.isHoldingInput
    /\ lastOp = "jumpToPhase"

\* C19: handleRestart replaces the state with a fresh one: score 0,
\* timeAlive 0, phase 1, no pipes, the bird at its start pose with zero
\* velocity, control inversion Idle, no slow motion, no system overload, not
\* over, playing; apart from the game mode and its profile, which are kept,
\* no field depends on the state before.
C19_RestartIsFresh ==
    [][ lastOp' = "restart" =>
            /\ state'.score = 0
            /\ state'.timeAlive = 0
            /\ state'.phase = 1
            /\ state'.pipes = <<>>
            /\ state'.bird.x = 80 * Micro /\ state'.bird.y = 250 * Micro
            /\ state'.bird.velocityY = 0 /\ state'.bird.velocityX = 0
            /\ FlipIdle(state')
            /\ ~state'.isSlowMotion /\ state'.timeScale = 100
            /\ ~state'.isSystemOverload
            /\ ~state'.isGameOver /\ state'.isPlaying
            /\ state'.gameMode = state.gameMode
            /\ state'.modeConfig = state.modeConfig
            /\ \A f \in DOMAIN state' \ {"gameMode", "modeConfig"} :
                    state'[f] = startedState("CHAOS")[f]
      ]_vars

\* a demo game that ended after its input window was restarted
C19_DemoRestarted ==
    /\ lastOp = "restart"
    /\ state.gameMode = "DEMO"
    /\ frames > InputWindow
    /\ state.timeAlive = 0

\* a jumpToPhase call of this step acts: the game is started and not over
JumpActs ==
    /\ lastOp' = "jumpToPhase"
    /\ state.hasStarted /\ ~state.isGameOver

\* C20 as stated: jumpToPhase(p) on a started, unfinished game sets phase = p
\* and timeAlive = (p - 1) * 15 s, the first instant of phase p.
C20_JumpToFirstInstant ==
    [][ JumpActs =>
            /\ state'.phase \in JumpKeys
            /\ state'.timeAlive = (state'.phase - 1) * (15 * 1000)
      ]_vars

\* C20, amended: jumpToPhase(p) on a started, unfinished game sets phase = p
\* and timeAlive = (p - 1) * 15 s + 0.5 s, half a second into phase p.
C20_JumpHalfSecondIn ==
    [][ JumpActs =>
            /\ state'.phase \in JumpKeys
            /\ state'.timeAlive = (state'.phase - 1) * (15 * 1000) + 500
            /\ IsPhaseOf(state'.phase, state'.timeAlive)
      ]_vars

\* a running game has just been moved to phase 5 by key 5
C20_JumpedToFive ==
    /\ lastOp = "jumpToPhase"
    /\ state.isPlaying /\ ~state.isGameOver
    /\ state.phase = 5
    /\ state.timeAlive = 60500

(***************************************************************************)
(* jumpToPhase applied to drawn states and phase arguments                 *)
(***************************************************************************)
\* phase arguments: negative, zero, and the first phases
JumpArguments == -1..3

\* started games of both modes, running or over, with the bird at rest
JumpProbeStates ==
    { s \in ProbeStates :
        s.bird = createBird /\ ~s.isControlFlipped /\ ~s.isHoldingInput }

\* performance.now() at the call
JumpClock == 1000

JumpInit ==
    /\ state = createInitialState("CHAOS")
    /\ lastTime = 0
    /\ lastPipeSpawn = 0
    /\ now = 0
    /\ lastOp = "init"
    /\ frames = 0
    /\ longFrames = 0
    /\ inputs = 0
    /\ restarts = 0
    /\ probe \in [fn : {"call"}, s : JumpProbeStates, p : JumpArguments, r : {NoResult}]

ApplyJumpToPhase ==
    /\ probe.fn = "call"
    /\ probe' = [probe EXCEPT !.fn = "jumpToPhase",
                              !.r = [state |-> jumpToPhase(probe.s, probe.p, JumpClock)]]
    /\ UNCHANGED <<state, lastTime, lastPipeSpawn, now, lastOp, frames, longFrames, inputs, restarts>>

JumpNext == ApplyJumpToPhase

JumpRules == JumpInit /\ [][JumpNext]_vars

MaxQuietFrames == 48
MaxStalledFrames == 5

\* frame deltas of the quiet run, in milliseconds: a fast display and a stalled one
FastFrame == 125
StalledFrame == 3 * 1000

\* the display may stall during the first frames of the run, and is fast afterwards
QuietDeltas ==
    IF frames = longFrames /\ longFrames < MaxStalledFrames
    THEN {FastFrame, StalledFrame} ELSE {FastFrame}

\* the Math.random() draws of the quiet run
QuietDraws ==
    [flip |-> LikelyDraw, ghost |-> LikelyDraw, delayed |-> LikelyDraw,
     gap |-> RandomScale \div 2, seed |-> 0]

\* the state after one idle frame and handleStart('CHAOS')
QuietInit ==
    /\ state = startedState("CHAOS")
    /\ lastTime = ShortFrame
    /\ lastPipeSpawn = ShortFrame
    /\ now = ShortFrame
    /\ lastOp = "start"
    /\ frames = 0
    /\ longFrames = 0
    /\ inputs = 0
    /\ restarts = 0
    /\ probe = NoProbe

\* one animation frame of the quiet run
QuietTick ==
    \E d \in QuietDeltas :
        /\ frames < MaxQuietFrames
        /\ LET timestamp == now + d
               s0 == slowMotionState(state, timestamp)
               processed == s0.isPlaying /\ ~s0.isGameOver /\ ~s0.isSystemOverload
               s1 == phaseStage(s0, timestamp,
                                slowMotionDelta(state, timestamp, frameDelta(timestamp, lastTime)))
           IN  /\ state' = gameLoop(state, timestamp, lastTime, lastPipeSpawn,
                                    QuietDraws.flip, QuietDraws)
               /\ lastPipeSpawn' = IF processed /\ spawnDue(s1, timestamp, lastPipeSpawn)
                                   THEN timestamp ELSE lastPipeSpawn
               /\ lastTime' = timestamp
               /\ now' = timestamp
        /\ frames' = frames + 1
        /\ longFrames' = IF d = StalledFrame THEN longFrames + 1 ELSE longFrames
        /\ lastOp' = "tick"
        /\ UNCHANGED <<inputs, restarts, probe>>

QuietNext == QuietTick

QuietRun == QuietInit /\ [][QuietNext]_vars

\* C22 as stated: a fresh game of the base mode ticking with no input
\* accumulates 15 seconds of survival time (it is never over before), and when
\* timeAlive = 15 s the phase reads 2 and the gravity-drift flag is true.
C22_ReachesPhaseTwo ==
    /\ state.isGameOver => state.timeAlive >= 15 * 1000
    /\ state.timeAlive = 15 * 1000 =>
           (state.phase = 2 /\ getPhaseConfig(state.phase).gravityDrift)

\* C22, amended: while the survival time is below 15 s the phase reads 1 and
\* gravity drift is off; when it is 15 s or more and below 30 s the phase reads
\* 2 and gravity drift is on; the game ends only with the bird on the ground,
\* which may happen before 15 s have been accumulated.
C22_PhaseTwoFromFifteen ==
    /\ state.timeAlive < 15 * 1000 =>
           (state.phase = 1 /\ ~getPhaseConfig(state.phase).gravityDrift)
    /\ (state.timeAlive >= 15 * 1000 /\ state.timeAlive < 30 * 1000) =>
           (state.phase = 2 /\ getPhaseConfig(state.phase).gravityDrift)
    /\ state.isGameOver => OnGround(state.bird)

\* the quiet game has accumulated exactly 15 s and is still running
C22_ExactlyFifteen ==
    /\ lastOp = "tick"
    /\ state.timeAlive = 15 * 1000
    /\ state.isPlaying
    /\ state.phase = 2

(***************************************************************************)
(* calculatePipeSpeed, calculateWindForce and calculateGravity applied to  *)
(* drawn survival times                                                    *)
(***************************************************************************)
\* survival times in milliseconds, every quarter of a second and the
\* millisecond before the next one, through the phases 1..MaxProbePhase
EffectTimes ==
    { k * 250 + o : k \in 0..(MaxProbePhase * 60 - 1), o \in {0, 249} }

EffectInit ==
    /\ state = createInitialState("CHAOS")
    /\ lastTime = 0
    /\ lastPipeSpawn = 0
    /\ now = 0
    /\ lastOp = "init"
    /\ frames = 0
    /\ longFrames = 0
    /\ inputs = 0
    /\ restarts = 0
    /\ probe \in [fn : {"time"}, t : EffectTimes, mode : GameModes, r : {NoResult}]

\* the phase the game is in at survival time t
EffectPhase == getCurrentPhase(probe.t)

ApplyCalculatePipeSpeed ==
    /\ probe.fn = "time"
    /\ probe' = [probe EXCEPT
                    !.fn = "calculatePipeSpeed",
                    !.r = [speed |-> calculatePipeSpeed(EffectPhase, probe.t,
                                        getPhaseConfig(EffectPhase), getModeConfig(probe.mode))]]
    /\ UNCHANGED <<state, lastTime, lastPipeSpawn, now, lastOp, frames, longFrames, inputs, restarts>>

ApplyCalculateWindForce ==
    /\ probe.fn = "time"
    /\ probe' = [probe EXCEPT
                    !.fn = "calculateWindForce",
                    !.r = [wind |-> calculateWindForce(EffectPhase, probe.t,
                                        getPhaseConfig(EffectPhase), getModeConfig(probe.mode))]]
    /\ UNCHANGED <<state, lastTime, lastPipeSpawn, now, lastOp, frames, longFrames, inputs, restarts>>

ApplyCalculateGravity ==
    /\ probe.fn = "time"
    /\ probe' = [probe EXCEPT
                    !.fn = "calculateGravity",
                    !.r = calculateGravity(EffectPhase, probe.t,
                                getPhaseConfig(EffectPhase), getModeConfig(probe.mode))]
    /\ UNCHANGED <<state, lastTime, lastPipeSpawn, now, lastOp, frames, longFrames, inputs, restarts>>

EffectNext ==
    \/ ApplyCalculatePipeSpeed
    \/ ApplyCalculateWindForce
    \/ ApplyCalculateGravity

EffectRules == EffectInit /\ [][EffectNext]_vars

\* base pipe speed of the probed mode, in micro-pixels per tick: 2.0 px in
\* CHAOS, 1.4 px in DEMO
BaseSpeed == IF probe.mode = "CHAOS" THEN 2000000 ELSE 1400000

\* C23: with speed drift active (phase >= 7) calculatePipeSpeed stays within
\* [0.85 * base, 1.15 * base], base = PIPES.SPEED * pipeSpeedMultiplier, at
\* every survival time and in both modes; with speed drift inactive it is base.
C23_SpeedWithinFifteenPercent ==
    probe.fn = "calculatePipeSpeed" =>
        IF EffectPhase >= 7
        THEN /\ 100 * probe.r.speed >= 85 * BaseSpeed
             /\ 100 * probe.r.speed <= 115 * BaseSpeed
        ELSE probe.r.speed = BaseSpeed

\* the drop to -15 % was probed in demo mode
C23_LowestSpeedProbed ==
    /\ probe.fn = "calculatePipeSpeed"
    /\ probe.mode = "DEMO"
    /\ EffectPhase >= 7
    /\ 100 * probe.r.speed = 85 * BaseSpeed

\* a and b differ by at most a thousandth of a pixel
Near(a, b) == a - b <= 1000 /\ b - a <= 1000

\* 15 % of the base pipe speed
MaxDeviation == (15 * BaseSpeed) \div 100

\* C24: with speed drift active the deviation of the pipe speed from base
\* depends on c = timeAlive mod 10 s: it ramps linearly from 0 to +15 % over
\* 0 <= c < 4, is -15 % for 4 <= c < 5, and recovers linearly from -15 % back
\* to 0 over 5 <= c < 10.
C24_SpeedCycle ==
    (probe.fn = "calculatePipeSpeed" /\ EffectPhase >= 7) =>
        LET c == probe.t % (10 * 1000)
            deviation == probe.r.speed - BaseSpeed
        IN  IF c < 4000 THEN Near(deviation, ((MaxDeviation \div 1000) * c) \div 4)
            ELSE IF c < 5000 THEN deviation = -MaxDeviation
            ELSE Near(deviation, ((MaxDeviation \div 1000) * (c - 5000)) \div 5 - MaxDeviation)

\* a millisecond before the end of the cycle the speed is more than 14 % above base
C24_RecoveryOvershoots ==
    /\ probe.fn = "calculatePipeSpeed"
    /\ EffectPhase >= 7
    /\ probe.t % (10 * 1000) = 9999
    /\ 100 * (probe.r.speed - BaseSpeed) > 14 * BaseSpeed

\* the wind multiplier of the probed mode in percent: 1.0 in CHAOS, 0.6 in DEMO
WindPercent == IF probe.mode = "CHAOS" THEN 100 ELSE 60

C26_WindIsHorizontal ==
    probe.fn = "updateBirdInWind" =>
        \A v, w \in ProbeWinds :
            LET a == probe.r.birds[v]
                b == probe.r.birds[w]
            IN  /\ a.y = b.y
                /\ a.velocityY = b.velocityY
                /\ a.width = b.width /\ a.height = b.height
                /\ v < w => (a.velocityX < b.velocityX /\ a.x < b.x)

\* a falling bird was stepped in a gust to the left and in one to the right
C26_GustsProbed ==
    /\ probe.fn = "updateBirdInWind"
    /\ probe.s.bird.velocityY = MAX_VELOCITY
    /\ probe.r.birds[WIND_UPWARD].x < probe.s.bird.x
    /\ probe.r.birds[WIND_DOWNWARD].x > probe.s.bird.x
    /\ probe.r.birds[WIND_UPWARD].y > probe.s.bird.y

\* the gravity multiplier of the probed mode in percent: 1.0 in CHAOS, 0.8 in DEMO
GravityPercent == IF probe.mode = "CHAOS" THEN 100 ELSE 80

\* base (0.375), heavy (0.45, 1.2x) and floaty (0.26, about 0.7x) gravity by
\* round-robin index, scaled by the mode
RoundRobinGravity(index) ==
    (CASE index = 0 -> 3750 [] index = 1 -> 4500 [] OTHER -> 2600) * GravityPercent

\* C27 as stated: from phase 4 on calculateGravity returns base, heavy or
\* floaty gravity, chosen round-robin by floor(timeAlive / 5 s) mod 3 and
\* scaled by the mode's gravityMultiplier.
C27_RoundRobinFromFour ==
    (probe.fn = "calculateGravity" /\ EffectPhase >= 4) =>
        probe.r.gravity = RoundRobinGravity((probe.t \div 5000) % 3)

\* C27, amended: the round robin holds from phase 5 on; in phase 4 the
\* gravity is the floaty one at every survival time.
C27_RoundRobinFromFive ==
    probe.fn = "calculateGravity" =>
        /\ EffectPhase >= 5 => probe.r.gravity = RoundRobinGravity((probe.t \div 5000) % 3)
        /\ EffectPhase = 4 => probe.r.gravity = RoundRobinGravity(2)

\* heavy gravity was probed in demo mode, in a phase after the fourth
C27_HeavyProbed ==
    /\ probe.fn = "calculateGravity"
    /\ probe.mode = "DEMO"
    /\ EffectPhase >= 5
    /\ (probe.t \div 5000) % 3 = 1
    /\ probe.r.gravity = 360000

(***************************************************************************)
(* calculateGravity called tick after tick while the survival time runs    *)
(* over a flip of the gravity cycle                                        *)
(***************************************************************************)
\* how far, in milliseconds of survival time, a run is followed
GravityRunSpan == 120

\* survival times 50 ms before a flip of the 4 s cycle (phase 2) and of the
\* 5 s cycle (phase 5)
GravityRunStarts == {16000 - 50, 65000 - 50}

\* frame deltas in milliseconds: 60 frames a second rounded down and up, and
\* 30 frames a second
GravityFrames == {16, 17, 33}

GravityInit ==
    /\ state = createInitialState("CHAOS")
    /\ lastTime = 0
    /\ lastPipeSpawn = 0
    /\ now = 0
    /\ lastOp = "init"
    /\ frames = 0
    /\ longFrames = 0
    /\ inputs = 0
    /\ restarts = 0
    /\ probe \in [ fn : {"start"}, mode : GameModes, from : GravityRunStarts,
                   t : GravityRunStarts, last : {0}, r : {NoResult} ]
    /\ probe.t = probe.from

\* one tick: "Apply slow motion", "Update time alive" and the calculateGravity
\* call of "Calculate physics values"
GravityTick ==
    \E d \in GravityFrames, slow \in BOOLEAN :
        LET s == [startedState(probe.mode) EXCEPT !.isSlowMotion = slow,
                                                  !.slowMotionEndTime = d,
                                                  !.timeScale = IF slow THEN TIME_SCALE ELSE 100]
            timeAlive == probe.t + slowMotionDelta(s, d, d)
            phase == getCurrentPhase(timeAlive)
        IN  /\ probe.t < probe.from + GravityRunSpan
            /\ probe' = [probe EXCEPT
                            !.fn = "tick",
                            !.t = timeAlive,
                            !.last = probe.t,
                            !.r = calculateGravity(phase, timeAlive, getPhaseConfig(phase),
                                                   getModeConfig(probe.mode))]
    /\ UNCHANGED <<state, lastTime, lastPipeSpawn, now, lastOp, frames, longFrames, inputs, restarts>>

GravityNext == GravityTick

GravityRun == GravityInit /\ [][GravityNext]_vars

\* the index of the gravity cycle at survival time t: the 4 s cycle of the
\* phases 2 and 3, the 5 s round robin of the phases from 5 on
CycleIndex(t) ==
    IF t < 45 * 1000 THEN (t \div 4000) % 2 ELSE (t \div 5000) % 3

\* C28: in the gravity-drift phases, whatever the frame deltas and with or
\* without slow motion, calculateGravity reports changed = true on exactly the
\* ticks at which the cycle index differs from its value on the previous tick.
C28_ChangedOnFlipTick ==
    probe.fn = "tick" =>
        (probe.r.changed <=> CycleIndex(probe.t) # CycleIndex(probe.last))

\* a tick of 17 ms took the survival time over the flip at 16 s without the
\* flip being reported
C28_FlipMissed ==
    /\ probe.fn = "tick"
    /\ probe.last = 16000 - 1
    /\ probe.t = 16000 + 16
    /\ ~probe.r.changed

\* the tick of this step changes the phase to one that has a banner (1..10)
TickIntoBannerPhase ==
    /\ lastOp' = "tick"
    /\ state'.phase # state.phase
    /\ state'.phase <= 10

\* slow motion runs in s with the deadline at end
SlowUntil(s, end) ==
    s.isSlowMotion /\ s.timeScale = 50 /\ s.slowMotionEndTime = end

\* C29 as stated: a tick that changes the phase to one with a banner starts
\* slow motion (timeScale 0.5) with the deadline 1500 ms after its timestamp;
\* slow motion is held on every tick up to the deadline, and the first tick
\* with a timestamp past the deadline clears isSlowMotion and restores
\* timeScale 1.
C29_SlowMotionWindow ==
    [][ /\ TickIntoBannerPhase => SlowUntil(state', now' + 1500)
        /\ (lastOp' = "tick" /\ state.isSlowMotion /\ ~TickIntoBannerPhase) =>
               IF now' > state.slowMotionEndTime
               THEN ~state'.isSlowMotion /\ state'.timeScale = 100
               ELSE SlowUntil(state', state.slowMotionEndTime)
        /\ (lastOp' = "tick" /\ state.isSlowMotion /\ now' > state.slowMotionEndTime) =>
               ~state'.isSlowMotion /\ state'.timeScale = 100
      ]_vars

\* C29, amended: a tick that changes the phase to one with a banner starts
\* slow motion (timeScale 0.5) with the deadline 1500 ms after its timestamp,
\* also when it is the first tick past the deadline of an earlier slow motion;
\* any other tick holds a running slow motion up to its deadline and, when
\* its timestamp is past the deadline, clears isSlowMotion and restores
\* timeScale 1.
C29_SlowMotionWindowOrRestart ==
    [][ /\ TickIntoBannerPhase => SlowUntil(state', now' + 1500)
        /\ (lastOp' = "tick" /\ state.isSlowMotion /\ ~TickIntoBannerPhase) =>
               IF now' > state.slowMotionEndTime
               THEN ~state'.isSlowMotion /\ state'.timeScale = 100
               ELSE SlowUntil(state', state.slowMotionEndTime)
      ]_vars

\* in phase 2 a tick past the deadline has ended the slow motion while the
\* banner of the phase is still shown
C29_SlowMotionEnded ==
    /\ lastOp = "tick"
    /\ state.isPlaying
    /\ state.phase = 2
    /\ state.timeAlive < 2 * PHASE_DURATION - 500
    /\ state.phaseChangeDisplay = 2
    /\ ~state.isSlowMotion
    /\ state.timeScale = 100
    /\ state.slowMotionEndTime > 0
    /\ now > state.slowMotionEndTime

(***************************************************************************)
(* One tick in slow motion and one at normal speed from the same state     *)
(***************************************************************************)
\* performance.now() of the compared ticks
SlowClock == 10 * 1000

\* real frame deltas of the compared ticks, in milliseconds
SlowFrames == {16, ShortFrame}

\* running games in the middle of a phase with one pipe ahead of the bird
SlowProbeStates ==
    { [s EXCEPT !.pipes = <<[createPipe(s.phase, FALSE, FALSE, 100, s.modeConfig,
                                        RandomScale \div 2, 0, 0)
                                EXCEPT !.x = (CANVAS_WIDTH \div 2) * Micro]>>] :
        s \in { q \in ProbeStates :
                    ~q.isGameOver /\ q.timeAlive % PHASE_DURATION = PHASE_DURATION \div 2 } }

SlowInit ==
    /\ state = createInitialState("CHAOS")
    /\ lastTime = 0
    /\ lastPipeSpawn = 0
    /\ now = 0
    /\ lastOp = "init"
    /\ frames = 0
    /\ longFrames = 0
    /\ inputs = 0
    /\ restarts = 0
    /\ probe \in [fn : {"state"}, s : SlowProbeStates, d : SlowFrames, r : {NoResult}]

\* gameLoop(SlowClock) on the drawn state, once while its slow motion lasts
\* and once without slow motion, d ms after the frame before
ApplySlowAndNormalTick ==
    /\ probe.fn = "state"
    /\ LET slowed == [probe.s EXCEPT !.isSlowMotion = TRUE,
                                     !.slowMotionEndTime = SlowClock + PHASE_CHANGE_DURATION,
                                     !.timeScale = TIME_SCALE]
           tick(s) == gameLoop(s, SlowClock, SlowClock - probe.d, SlowClock,
                               QuietDraws.flip, QuietDraws)
       IN  probe' = [probe EXCEPT !.fn = "gameLoop",
                                  !.r = [slow |-> tick(slowed), normal |-> tick(probe.s)]]
    /\ UNCHANGED <<state, lastTime, lastPipeSpawn, now, lastOp, frames, longFrames, inputs, restarts>>

SlowNext == ApplySlowAndNormalTick

SlowRules == SlowInit /\ [][SlowNext]_vars

\* C30: a tick in slow motion advances survival time, the bird (velocity and
\* position) and the pipes half as far as a normal tick of the same real
\* length from the same state.
C30_EverythingAtHalfSpeed ==
    probe.fn = "gameLoop" =>
        LET s == probe.s
            slow == probe.r.slow
            normal == probe.r.normal
        IN  /\ 2 * (slow.timeAlive - s.timeAlive) = normal.timeAlive - s.timeAlive
            /\ 2 * (slow.bird.y - s.bird.y) = normal.bird.y - s.bird.y
            /\ 2 * (slow.bird.velocityY - s.bird.velocityY)
                    = normal.bird.velocityY - s.bird.velocityY
            /\ 2 * (slow.pipes[1].x - s.pipes[1].x) = normal.pipes[1].x - s.pipes[1].x

\* the slowed tick added half the survival time of the normal one but moved
\* the falling bird and the pipe exactly as far
C30_OnlyClockSlowed ==
    /\ probe.fn = "gameLoop"
    /\ 2 * (probe.r.slow.timeAlive - probe.s.timeAlive)
            = probe.r.normal.timeAlive - probe.s.timeAlive
    /\ probe.r.slow.bird = probe.r.normal.bird
    /\ probe.r.slow.bird.y > probe.s.bird.y
    /\ probe.r.slow.pipes = probe.r.normal.pipes
    /\ probe.r.slow.pipes[1].x < probe.s.pipes[1].x

\* the other game mode
OtherMode(mode) == IF mode = "CHAOS" THEN "DEMO" ELSE "CHAOS"

\* C31: every handleToggleMode call, before or after the start and during
\* play, switches gameMode to the other mode and modeConfig to its profile.
C31_ToggleAnytime ==
    [][ lastOp' = "toggleMode" =>
            /\ state'.gameMode = OtherMode(state.gameMode)
            /\ state'.modeConfig = IF state'.gameMode = "CHAOS" THEN CHAOS_MODE_CONFIG
                                                              ELSE DEMO_MODE_CONFIG
      ]_vars

\* key M was pressed during play
C31_ToggledDuringPlay ==
    /\ lastOp = "toggleMode"
    /\ state.hasStarted
    /\ state.isPlaying
    /\ state.timeAlive > 0

\* C32: in every reachable state modeConfig is the whole named profile of
\* gameMode; no start, toggle, restart, tick, press or jump leaves a profile
\* that mixes the two or disagrees with the mode.
C32_ProfileIsOfMode ==
    /\ state.gameMode \in {"CHAOS", "DEMO"}
    /\ state.gameMode = "CHAOS" => state.modeConfig = CHAOS_MODE_CONFIG
    /\ state.gameMode = "DEMO" => state.modeConfig = DEMO_MODE_CONFIG

\* the start screen has been toggled to the demo mode
C32_ToggledToDemo ==
    /\ lastOp = "toggleMode"
    /\ ~state.hasStarted
    /\ state.gameMode = "DEMO"
    /\ state.modeConfig.collisionForgivenessMs = 120

(***************************************************************************)
(* updateBird and flapBird applied to birds at the edges of the screen     *)
(***************************************************************************)
\* the fastest sideways drift the wind and the friction allow: 0.075 * 0.95 / 0.05
MaxDrift == 1425000

\* birds at the ceiling, near it and near the ground, at the left and right
\* stops and between them, at rest and at the limits of their velocities
EdgeBirds ==
    { b \in { [createBird EXCEPT !.x = x * Micro, !.y = y * Micro,
                                 !.velocityX = vx, !.velocityY = vy] :
                x \in {20, 21, BIRD_X_POSITION, 345, 346},
                y \in {0, 5, 2 * BIRD_INITIAL_Y},
                vx \in {-MaxDrift, 0, MaxDrift},
                vy \in {MIN_VELOCITY, FLAP_FORCE, 0, MAX_VELOCITY} } :
        /\ b.x = 20 * Micro => b.velocityX <= 0
        /\ b.x = 346 * Micro => b.velocityX >= 0
        /\ b.y = 0 => b.velocityY \in {FLAP_FORCE, 0} }

\* the weakest and the strongest gravity calculateGravity returns in a mode
EdgeGravities(mode) ==
    { Scale(FLOATY_GRAVITY, getModeConfig(mode).gravityMultiplier),
      Scale(Scale(GRAVITY, getModeConfig(mode).gravityMultiplier), GRAVITY_HIGH_MULTIPLIER) }

EdgeInit ==
    /\ state = createInitialState("CHAOS")
    /\ lastTime = 0
    /\ lastPipeSpawn = 0
    /\ now = 0
    /\ lastOp = "init"
    /\ frames = 0
    /\ longFrames = 0
    /\ inputs = 0
    /\ restarts = 0
    /\ probe \in [ fn : {"bird"}, bird : EdgeBirds, mode : GameModes,
                   flipped : BOOLEAN, held : BOOLEAN, r : {NoResult} ]

ApplyUpdateBirdAtEdge ==
    /\ probe.fn = "bird"
    /\ \E gravity \in EdgeGravities(probe.mode), wind \in {WIND_UPWARD, 0, WIND_DOWNWARD} :
         LET force == getModeConfig(probe.mode).controlFlipForceMultiplier
         IN  probe' = [probe EXCEPT
                          !.fn = "updateBird",
                          !.r = [ push |-> VerticalPush(gravity, probe.flipped, probe.held, force),
                                  bird |-> updateBird(probe.bird, gravity, wind, probe.flipped,
                                                      probe.held, force) ]]
    /\ UNCHANGED <<state, lastTime, lastPipeSpawn, now, lastOp, frames, longFrames, inputs, restarts>>

ApplyFlapBirdAtEdge ==
    /\ probe.fn = "bird"
    /\ probe' = [probe EXCEPT !.fn = "flapBird",
                              !.r = [bird |-> flapBird(probe.bird, probe.flipped)]]
    /\ UNCHANGED <<state, lastTime, lastPipeSpawn, now, lastOp, frames, longFrames, inputs, restarts>>

EdgeNext ==
    \/ ApplyUpdateBirdAtEdge
    \/ ApplyFlapBirdAtEdge

EdgeRules == EdgeInit /\ [][EdgeNext]_vars

\* the bounds of the bird: velocities in px per tick, position in px
BirdInBounds(bird) ==
    /\ -10 * Micro <= bird.velocityY /\ bird.velocityY <= 8 * Micro
    /\ bird.y >= 0
    /\ -3 * Micro <= bird.velocityX /\ bird.velocityX <= 3 * Micro
    /\ 20 * Micro <= bird.x /\ bird.x <= 346 * Micro

\* the vertical velocity after the push, clamped to [-10, 8]
ClampedVelocity == Max(-10 * Micro, Min(8 * Micro, probe.bird.velocityY + probe.r.push))

\* C33: after updateBird and after flapBird the bird satisfies
\* -10 <= velocityY <= 8, y >= 0, -3 <= velocityX <= 3 and 20 <= x <= 346;
\* when the step would carry y above the top boundary the result has y = 0
\* and velocityY = 0, otherwise y has moved by the clamped velocity.
C33_BirdStaysInBounds ==
    /\ probe.fn \in {"updateBird", "flapBird"} => BirdInBounds(probe.r.bird)
    /\ probe.fn = "updateBird" =>
           IF probe.bird.y + ClampedVelocity < 0
           THEN probe.r.bird.y = 0 /\ probe.r.bird.velocityY = 0
           ELSE /\ probe.r.bird.y = probe.bird.y + ClampedVelocity
                /\ probe.r.bird.velocityY = ClampedVelocity

\* a bird 5 px below the ceiling rising at full speed was stopped at the ceiling
C33_StoppedAtCeiling ==
    /\ probe.fn = "updateBird"
    /\ probe.bird.y = 5 * Micro
    /\ probe.bird.velocityY = MIN_VELOCITY
    /\ probe.bird.x = 20 * Micro
    /\ probe.r.bird.y = 0
    /\ probe.r.bird.velocityY = 0
    /\ probe.r.bird.x = 20 * Micro

(***************************************************************************)
(* createPipe over every phase, both modes and the range of Math.random()  *)
(***************************************************************************)
\* the assist multiplier spawnPipe passes to createPipe, in percent
SpawnGapMultiplier == 100

\* Math.random() draws for the gap centre: both ends of [0, 1) and points between
GapCentreDraws == {0, 1, RandomScale \div 4, RandomScale \div 2, RandomScale - 2, RandomScale - 1}

GapInit ==
    /\ state = createInitialState("CHAOS")
    /\ lastTime = 0
    /\ lastPipeSpawn = 0
    /\ now = 0
    /\ lastOp = "init"
    /\ frames = 0
    /\ longFrames = 0
    /\ inputs = 0
    /\ restarts = 0
    /\ probe \in [ fn : {"gap"}, phase : 1..MaxProbePhase, mode : GameModes,
                   gapDraw : GapCentreDraws, r : {NoResult} ]

ApplyCreatePipe ==
    /\ probe.fn = "gap"
    /\ \E isGhost \in {shouldBeGhostPipe(probe.phase, 0), FALSE},
          hasDelayed \in {shouldHaveDelayedCollision(probe.phase, 0), FALSE} :
         probe' = [probe EXCEPT
                      !.fn = "createPipe",
                      !.r = [pipe |-> createPipe(probe.phase, isGhost, hasDelayed,
                                                 SpawnGapMultiplier, getModeConfig(probe.mode),
                                                 probe.gapDraw, 0, JumpClock)]]
    /\ UNCHANGED <<state, lastTime, lastPipeSpawn, now, lastOp, frames, longFrames, inputs, restarts>>

GapNext == ApplyCreatePipe

GapRules == GapInit /\ [][GapNext]_vars

\* gap height in px before the multipliers: 200 in phases 1-2, 5 less per
\* later phase, never below 140
BaseGapPx(phase) ==
    IF phase <= 2 THEN 200 ELSE IF 200 - 5 * (phase - 2) < 140 THEN 140 ELSE 200 - 5 * (phase - 2)

\* C34: every pipe of createPipe has
\* gapSize = max(140, 200 - 5 * max(0, phase - 2)) * pipeGapMultiplier * gapMultiplier,
\* and in every phase and both modes the whole gap
\* [gapY - gapSize/2, gapY + gapSize/2] lies between y = 100 and y = 450,
\* above the ground line at 550.
C34_GapOnScreen ==
    probe.fn = "createPipe" =>
        LET pipe == probe.r.pipe
            profile == IF probe.mode = "DEMO" THEN 160 ELSE 100
        IN  /\ pipe.gapSize = BaseGapPx(probe.phase) * profile * SpawnGapMultiplier * 100
            /\ pipe.gapY - pipe.gapSize \div 2 >= 100 * Micro
            /\ pipe.gapY + pipe.gapSize \div 2 <= 450 * Micro
            /\ 450 * Micro < (CANVAS_HEIGHT - 50) * Micro

\* a demo pipe of phases 1-2 (gap 320 px) drawn at the bottom of its band:
\* the gap ends within 1 px of y = 450
C34_WidestGapLowest ==
    /\ probe.fn = "createPipe"
    /\ probe.mode = "DEMO"
    /\ probe.phase = 2
    /\ probe.gapDraw = RandomScale - 1
    /\ probe.r.pipe.gapSize = 320 * Micro
    /\ probe.r.pipe.gapY + probe.r.pipe.gapSize \div 2 > 449 * Micro

(***************************************************************************)
(* Order and lifetime of the pipes (PipeRules)                             *)
(***************************************************************************)
\* the pipe of the list with the given number, as a set of at most one pipe
PipeOf(pipes, id) == { pipes[i] : i \in { j \in 1..Len(pipes) : PipeId(pipes[j]) = id } }

\* px (in micro-pixels) the pipes move per tick in phase 1: 2 px, 70 % of it in demo mode
PhaseOneStep(mode) == IF mode = "DEMO" THEN 1400000 ELSE 2000000

\* C35: after every tick the pipe list is in spawn order with strictly
\* increasing x from first to last (oldest leftmost), every pipe in it has
\* x + 52 >= 0, a pipe leaves the list exactly on the first tick at which
\* x + 52 < 0, and pipes only ever move left.
C35_PipesInSpawnOrder ==
    [][ LET old == probe.s.pipes
            new == probe'.s.pipes
            step == PhaseOneStep(probe.s.gameMode)
        IN  /\ \A i \in 1..(Len(new) - 1) :
                   new[i].x < new[i + 1].x /\ PipeId(new[i]) < PipeId(new[i + 1])
            /\ \A i \in 1..Len(new) : new[i].x + 52 * Micro >= 0
            /\ \A i \in 1..Len(old) :
                   LET kept == PipeOf(new, PipeId(old[i]))
                   IN  /\ Cardinality(kept) <= 1
                       /\ \A pipe \in kept : pipe.x < old[i].x /\ pipe.x = old[i].x - step
                       /\ kept = {} <=> old[i].x - step + 52 * Micro < 0
                       /\ old[i].x + 52 * Micro >= 0
            /\ \A i \in 1..Len(new) :
                   PipeOf(old, PipeId(new[i])) = {} =>
                       /\ i = Len(new)
                       /\ new[i].x = CANVAS_WIDTH * Micro - step
      ]_vars

\* the first pipe has left the screen and the list, the second is on its way
C35_FirstPipeRemoved ==
    /\ probe.fn = "pipes"
    /\ probe.gone = {1}
    /\ Len(probe.s.pipes) = 1
    /\ PipeId(probe.s.pipes[1]) = 2
    /\ probe.s.pipes[1].x < 200 * Micro

(***************************************************************************)
(* The score (PipeRules)                                                   *)
(***************************************************************************)
\* the numbers of the pipes of the list that carry the scored flag
ScoredIn(pipes) == { PipeId(pipes[i]) : i \in { j \in 1..Len(pipes) : pipes[j].scored } }

\* C36: within a session the score never decreases and equals the number of
\* pipes spawned in the session whose scored flag has been set (those in the
\* list with scored = true plus those already removed); each tick raises the
\* score by exactly the number of pipes whose scored flag flipped in the tick.
C36_ScoreCountsScoredPipes ==
    [][ LET flipped == ScoredIn(probe'.s.pipes) \ (ScoredIn(probe.s.pipes) \cup probe.gone)
        IN  /\ probe'.s.score >= probe.s.score
            /\ probe'.s.score = Cardinality(ScoredIn(probe'.s.pipes)) + Cardinality(probe'.gone)
            /\ probe'.s.score - probe.s.score = Cardinality(flipped)
            /\ ScoredIn(probe'.s.pipes) \cap probe'.gone = {}
      ]_vars

\* both pipes of the run have been scored, the first has been removed since
C36_TwoScoredOneGone ==
    /\ probe.fn = "pipes"
    /\ probe.s.score = 2
    /\ probe.gone = {1}
    /\ ScoredIn(probe.s.pipes) = {2}

(***************************************************************************)
(* Control inversion below phase 5                                         *)
(***************************************************************************)
\* C37: the control inversion is Idle (controlFlipWarning and isControlFlipped
\* both false) in every reachable state whose phase is below 5, whatever
\* ticks, inputs and jumpToPhase calls led there.
C37_IdleBelowPhaseFive == state.phase < 5 => FlipIdle(state)

\* the inversion was announced in phase 5, a jump went back to phase 2, and a
\* later tick has made the inversion active there
C37_InvertedInPhaseTwo ==
    /\ lastOp = "tick"
    /\ state.isPlaying
    /\ state.phase = 2
    /\ FlipActive(state)

(***************************************************************************)
(* The lifecycle flags                                                     *)
(***************************************************************************)
LifecycleConsistent(s) ==
    /\ s.isGameOver => ~s.isPlaying
    /\ s.isPlaying => s.hasStarted
    /\ s.isGameOver => s.hasStarted

\* C38: in every reachable state isGameOver implies not isPlaying, isPlaying
\* implies hasStarted and isGameOver implies hasStarted; isGameOver turns true
\* only in a tick where checkAllCollisions reported a hit, and turns false
\* only through handleStart or handleRestart.
C38_LifecycleFlags ==
    [][ /\ LifecycleConsistent(state)
        /\ LifecycleConsistent(state')
        /\ (~state.isGameOver /\ state'.isGameOver) =>
               lastOp' = "tick" /\ Collides(state', now')
        /\ (state.isGameOver /\ ~state'.isGameOver) =>
               lastOp' \in {"start", "restart"}
      ]_vars

\* a press after game over: the input is held, the game stays over and stopped
C38_PressAfterGameOver ==
    /\ lastOp = "inputDown"
    /\ state.isGameOver
    /\ state.isHoldingInput
    /\ ~state.isPlaying
    /\ state.hasStarted

(***************************************************************************)
(* game/AudioManager.ts: the asynchronous start() against the game loop    *)
(***************************************************************************)
\* Phases a run of the audio rules goes through, and restarts of such a run
MaxAudioPhase == 7
MaxAudioRestarts == 2

\* the fields of the AudioManager singleton after construction; context is
\* "null" while audioContext is null, else audioContext.state
NewAudioManager ==
    [ isInitialized |-> FALSE, context |-> "null", isPlaying |-> FALSE,
      currentPhase |-> 1, stutterInterval |-> FALSE, wobbleInterval |-> FALSE ]

\* initialize: ok is false when the AudioContext constructor throws,
\* contextState is the state the browser creates the context in
initialize(a, ok, contextState) ==
    IF a.isInitialized THEN a
    ELSE IF ok THEN [a EXCEPT !.context = contextState, !.isInitialized = TRUE]
    ELSE a

clearWobble(a) == [a EXCEPT !.wobbleInterval = FALSE]

clearStutter(a) == [a EXCEPT !.stutterInterval = FALSE]

startWobble(a) == [clearWobble(a) EXCEPT !.wobbleInterval = TRUE]

startSparseGlitch(a) == [clearStutter(a) EXCEPT !.stutterInterval = TRUE]

applyPhaseEffects(a, phase) ==
    IF a.context = "null" THEN a
    ELSE IF phase <= 2 THEN clearStutter(clearWobble(a))
    ELSE IF phase <= 4 THEN startWobble(a)
    ELSE IF phase <= 6 THEN startWobble(a)
    ELSE IF phase <= 8 THEN startSparseGlitch(clearWobble(a))
    ELSE startSparseGlitch(a)

updatePhase(a, phase) ==
    IF a.context = "null" \/ ~a.isPlaying THEN a
    ELSE IF phase = a.currentPhase /\ phase # 1 THEN a
    ELSE applyPhaseEffects([a EXCEPT !.currentPhase = phase], phase)

\* stop
stopAudio(a) ==
    IF a.context = "null" \/ ~a.isPlaying THEN a
    ELSE [a EXCEPT !.stutterInterval = FALSE, !.wobbleInterval = FALSE, !.isPlaying = FALSE]

resumeFromOverload(a) ==
    IF a.context = "null" THEN a ELSE applyPhaseEffects(a, a.currentPhase)

\* reset
resetAudio(a) ==
    LET a1 == [a EXCEPT !.currentPhase = 1, !.stutterInterval = FALSE, !.wobbleInterval = FALSE]
    IN  IF a1.isPlaying THEN updatePhase(a1, 1) ELSE a1

\* start, from "Start oscillators" to its end
startPlaying(a) == updatePhase([a EXCEPT !.isPlaying = TRUE, !.currentPhase = 1], 1)

\* start, from the test after the first await up to the second await or the
\* end: waits is true when the call is left waiting for audioContext.resume()
startAfterInitialize(a) ==
    IF a.context = "null" \/ a.isPlaying THEN [audio |-> a, waits |-> FALSE]
    ELSE IF a.context = "suspended" THEN [audio |-> a, waits |-> TRUE]
    ELSE [audio |-> startPlaying(a), waits |-> FALSE]

\* the lifecycle flags, the phase and the overload flag of a GameState
AudioGame(started, mode) ==
    [ hasStarted |-> started, isPlaying |-> started, isGameOver |-> FALSE,
      phase |-> 1, isSystemOverload |-> FALSE, gameMode |-> mode ]

AudioInit ==
    /\ state = createInitialState("CHAOS")
    /\ lastTime = 0
    /\ lastPipeSpawn = 0
    /\ now = 0
    /\ lastOp = "init"
    /\ frames = 0
    /\ longFrames = 0
    /\ inputs = 0
    /\ restarts = 0
    /\ probe = [ fn |-> "audio", game |-> AudioGame(FALSE, "CHAOS"),
                 audio |-> NewAudioManager,
                 initializing |-> FALSE,   \* a start() waits on "await this.initialize()"
                 resuming |-> 0,           \* start() calls that wait on "await audioContext.resume()"
                 restarts |-> 0 ]

\* the part of start() that runs inside the caller, up to its first await
StartCalled(a, pr, ok, contextState) ==
    IF ~a.isInitialized
    THEN [pr EXCEPT !.audio = initialize(a, ok, contextState), !.initializing = TRUE]
    ELSE LET r == startAfterInitialize(a)
         IN  [pr EXCEPT !.audio = r.audio,
                        !.resuming = IF r.waits THEN @ + 1 ELSE @]

\* handleStart and the audioManager.start() it calls
AudioHandleStart ==
    /\ probe.fn = "audio"
    /\ ~probe.initializing
    /\ ~probe.game.hasStarted
    /\ \E mode \in GameModes, ok \in BOOLEAN, contextState \in {"suspended", "running"} :
         probe' = StartCalled(probe.audio, [probe EXCEPT !.game = AudioGame(TRUE, mode)],
                              ok, contextState)
    /\ UNCHANGED <<state, lastTime, lastPipeSpawn, now, lastOp, frames, longFrames, inputs, restarts>>

\* handleRestart with audioManager.reset() and audioManager.start()
AudioHandleRestart ==
    /\ probe.fn = "audio"
    /\ ~probe.initializing
    /\ probe.game.isGameOver
    /\ probe.restarts < MaxAudioRestarts
    /\ \E ok \in BOOLEAN, contextState \in {"suspended", "running"} :
         probe' = StartCalled(resetAudio(probe.audio),
                              [probe EXCEPT !.game = AudioGame(TRUE, probe.game.gameMode),
                                            !.restarts = @ + 1],
                              ok, contextState)
    /\ UNCHANGED <<state, lastTime, lastPipeSpawn, now, lastOp, frames, longFrames, inputs, restarts>>

\* the continuation of start() after "await this.initialize()": a microtask,
\* it runs before any other callback
AudioInitialized ==
    /\ probe.fn = "audio"
    /\ probe.initializing
    /\ LET r == startAfterInitialize(probe.audio)
       IN  probe' = [probe EXCEPT !.audio = r.audio,
                                  !.initializing = FALSE,
                                  !.resuming = IF r.waits THEN @ + 1 ELSE @]
    /\ UNCHANGED <<state, lastTime, lastPipeSpawn, now, lastOp, frames, longFrames, inputs, restarts>>

\* audioContext.resume() resolves: the context runs and every start() that
\* waited for it goes on to its end
AudioResumed ==
    /\ probe.fn = "audio"
    /\ ~probe.initializing
    /\ probe.resuming > 0
    /\ probe' = [probe EXCEPT !.audio = startPlaying([@ EXCEPT !.context = "running"]),
                              !.resuming = 0]
    /\ UNCHANGED <<state, lastTime, lastPipeSpawn, now, lastOp, frames, longFrames, inputs, restarts>>

\* one frame of gameLoop, as far as the audio manager is concerned: the end
\* of the overload freeze, or a phase change (with the overload of phases 3,
\* 6 and 9) and the collision check
AudioTick ==
    /\ probe.fn = "audio"
    /\ ~probe.initializing
    /\ probe.game.isPlaying /\ ~probe.game.isGameOver
    /\ IF probe.game.isSystemOverload
       THEN probe' = [probe EXCEPT !.game.isSystemOverload = FALSE,
                                   !.audio = resumeFromOverload(@)]
       ELSE \E phaseChange \in BOOLEAN, hit \in BOOLEAN :
              /\ phaseChange \/ hit
              /\ phaseChange => probe.game.phase < MaxAudioPhase
              /\ LET newPhase == IF phaseChange THEN probe.game.phase + 1 ELSE probe.game.phase
                     a1 == IF phaseChange
                           THEN updatePhase(probe.audio, Min(newPhase, MAX_PHASE))
                           ELSE probe.audio
                     a2 == IF hit THEN stopAudio(a1) ELSE a1
                 IN  probe' = [probe EXCEPT
                                  !.game.phase = newPhase,
                                  !.game.isSystemOverload = phaseChange /\ newPhase \in TRIGGER_PHASES,
                                  !.game.isGameOver = hit,
                                  !.game.isPlaying = ~hit,
                                  !.audio = a2]
    /\ UNCHANGED <<state, lastTime, lastPipeSpawn, now, lastOp, frames, longFrames, inputs, restarts>>

AudioNext ==
    \/ AudioHandleStart
    \/ AudioHandleRestart
    \/ AudioInitialized
    \/ AudioResumed
    \/ AudioTick

AudioRules == AudioInit /\ [][AudioNext]_vars

\* no start() call is waiting
NoPendingStart == ~probe.initializing /\ probe.resuming = 0

\* C39: under every interleaving of the asynchronous audioManager.start()
\* with the stop() of the game loop on game over, once all pending start()
\* calls have completed while the game is over, audioManager.isPlaying is
\* false and no stutter or wobble interval is running.
C39_SilentAfterGameOver ==
    (probe.fn = "audio" /\ probe.game.isGameOver /\ NoPendingStart) =>
        /\ ~probe.audio.isPlaying
        /\ ~probe.audio.stutterInterval
        /\ ~probe.audio.wobbleInterval

\* the first game is over, its start() has completed after the stop() of the
\* game loop, and the audio manager plays
C39_PlayingAfterGameOver ==
    /\ probe.fn = "audio"
    /\ probe.game.isGameOver
    /\ probe.restarts = 0
    /\ NoPendingStart
    /\ probe.audio.isPlaying
    /\ probe.audio.context = "running"

====
